---- MODULE Spec2Model ----
(***************************************************************************)
(* A model of the GitHub follow / unfollow bots.                           *)
(*                                                                         *)
(*   SpecRetry     github.js: the rate-limit tracker (rateLimitInfo,       *)
(*                 updateRateLimitInfo, checkRateLimit), executeWithRetry  *)
(*                 and the operations built on it.                         *)
(*   SpecProgress  progress.js as a library: its exported functions        *)
(*                 called in any order with any arguments.                 *)
(*   Spec          the two session orchestrators (index.js: follow,        *)
(*                 github/unfollow/index.js: unfollow) over progress.js,   *)
(*                 run after run on the same progress file.                *)
(*   SpecLive      Spec with the fairness of the event loop.               *)
(*   SpecFair      SpecLive when no request fails for ever.                *)
(*   SpecClean     one follow run in which nothing goes wrong.             *)
(*   SpecResume    one follow run that resumes a stored session.           *)
(*   SpecConfig    config.js as a library: loadConfig on any config.json,  *)
(*                 then generateSessionLimit.                              *)
(*                                                                         *)
(* Time is counted in whole seconds: the x-ratelimit-reset header is in    *)
(* seconds, Date values are that number * 1000, and the 1000 ms margin of  *)
(* the code is one tick.                                                   *)
(***************************************************************************)
EXTENDS Integers, Sequences, FiniteSets, TLC

(***************************************************************************)
(* Bounds of the model                                                     *)
(***************************************************************************)
\* the clock runs from 0 to MaxNow
MaxNow == 4
\* config.retryAttempts ranges over 1..MaxRetryAttempts (validateConfig keeps it in 1..10)
MaxRetryAttempts == 3
\* in SpecProgress the processed list holds at most MaxFollowed entries
MaxFollowed == 2
\* pages are numbered 1 .. MaxPage
MaxPage == 3
\* the process is run at most MaxRuns times on the same progress file
MaxRuns == 2
\* config.perPage in the model (validateConfig keeps it in 1..100)
PerPage == 2
\* config.perPage in the runs of SpecClean
CleanPerPage == 5
\* config.perPage in the runs of SpecResume
ResumePerPage == 4
\* config.json has at most MaxKeys keys
MaxKeys == 2
\* Math.random() takes the values 0/RandSteps .. (RandSteps-1)/RandSteps
RandSteps == 4

(***************************************************************************)
(* Program constants                                                       *)
(***************************************************************************)
\* github.js:85  if (rateLimitInfo.remaining <= 10)
RateBuffer == 10
\* github.js:19 and :21  the tracker's initial remaining and limit
InitialRemaining == 5000
\* github.js:93 and :141  the one second added to a rate-limit wait
MarginTicks == 1

\* a header of a response is the set of its values: empty when the response does not
\* carry it, one number when it does
NoHeader == {}
HeaderOf(values) == {NoHeader} \cup {{v} : v \in values}
HeaderValue(header) == CHOOSE v \in header : TRUE
\* the values the x-ratelimit-remaining header takes in the model
RemainingVals == {0, 10, 11}
\* the statuses of a failed call; "none" is an error without a status (network)
TerminalStatus == {"401", "403", "404"}
ErrorStatus == TerminalStatus \cup {"429", "500", "none"}
Operations == {"fetchUsers", "followUser", "unfollowUser", "isFollowing", "validateUser"}

\* this.progress before initialize(), and the progress file before it is written
Null == [null |-> TRUE]
NoFile == [exists |-> FALSE]

VARIABLES
  \* ---- github.js
  rateLimitInfo,   \* the module-level tracker {remaining, reset, limit}
  now,             \* Date.now(), in seconds
  config,          \* the configuration passed to executeWithRetry
  pc,              \* where executeWithRetry stands
  operation,       \* the exported operation that called executeWithRetry
  attempt,         \* the loop variable of executeWithRetry
  lastError,       \* its lastError: the status of the last failure, or "ok"
  wakeAt,          \* the time at which the pending setTimeout fires
  outcome,         \* how the last executeWithRetry ended, and what its caller made of it
  calls,           \* history: invocations of apiCall in this executeWithRetry
  n429,            \* history: those that failed with status 429
  waits,           \* history: backoff and rate-limit waits taken in its catch block
  refreshes,       \* history: rateLimit.get() calls made by checkRateLimit in it
  \* ---- progress.js
  progress,        \* the progress object its caller holds (this.progress), or Null
  file,            \* the content of the progress file, or NoFile
  resumed,         \* whether the last initializeProgress took its "same session" branch
  \* ---- index.js (follow) and github/unfollow/index.js (unfollow)
  variant,         \* which bot runs: "follow" or "unfollow"
  dryRun,          \* the --dry-run option of this run
  remote,          \* the target's list on GitHub, page by page
  run,             \* the number of the process run on this progress file
  target,          \* the --username argument of this run
  mode,            \* the --mode argument of this run
  spc,             \* where the process stands
  isRunning,       \* this.isRunning
  shouldStop,      \* this.shouldStop
  currentPage,     \* the local currentPage of run() / start()
  hasMorePages,    \* the local hasMorePages
  users,           \* the page just fetched
  selectedUsers,   \* the users of the page chosen for processing, in order
  idx,             \* the position in selectedUsers of the user being processed
  exitCode,        \* the status the process exited with, or "none"
  signalled,       \* history: a SIGINT or SIGTERM was delivered to this run
  terminal,        \* history: a request of this run ended with 401, 403 or 404
  errors,          \* the local errors of processPage; the unfollow bot has no such counter
  fired,           \* the break tiers (mini, medium, long) that fired after the last unfollow
  taken,           \* the break tiers slept after the last unfollow
  pageWrites       \* history: the contents written to the file by the last page transition

retryVars == <<rateLimitInfo, now, config, pc, operation, attempt, lastError,
               wakeAt, outcome, calls, n429, waits, refreshes>>

progVars == <<progress, file, resumed>>

sessVars == <<variant, dryRun, remote, run, target, mode, spc, isRunning, shouldStop,
              currentPage, hasMorePages, users, selectedUsers, idx, exitCode,
              signalled, terminal, errors, fired, taken, pageWrites>>

\* what executeWithRetry leaves alone, and what progress.js leaves alone
notRetryVars == <<progVars, sessVars>>
notProgVars == <<retryVars, sessVars>>

vars == <<retryVars, progVars, sessVars>>

Max(a, b) == IF a >= b THEN a ELSE b

RECURSIVE Pow2(_)
Pow2(n) == IF n = 0 THEN 1 ELSE 2 * Pow2(n - 1)

(***************************************************************************)
(* github.js: the rate-limit tracker                                       *)
(***************************************************************************)

\* the headers of a response: each rate-limit header is there or not
Headers ==
  [remaining : HeaderOf(RemainingVals),
   reset     : HeaderOf(0 .. MaxNow - 1),
   limit     : HeaderOf({InitialRemaining})]

\* updateRateLimitInfo(headers): each field is replaced only when its header is there
updateRateLimitInfo(info, headers) ==
  [remaining |-> IF headers.remaining # NoHeader THEN HeaderValue(headers.remaining) ELSE info.remaining,
   reset     |-> IF headers.reset # NoHeader THEN HeaderValue(headers.reset) ELSE info.reset,
   limit     |-> IF headers.limit # NoHeader THEN HeaderValue(headers.limit) ELSE info.limit]

\* checkRateLimit, line 85: the buffer test
NearlyExhausted(info) == info.remaining <= RateBuffer

\* a wait that is two seconds short of the reset
RateWaitTime_Short(info, t) == info.reset - t - 2

\* checkRateLimit, lines 86-87: waitTime = reset - Date.now(), and the test waitTime > 0
RateWaitTime(info, t) == info.reset - t

\* getRetryDelay(config, attempt) = retryDelay * 2^attempt, in units of retryDelay
getRetryDelay(cfg, a) == cfg.retryDelay * Pow2(a)

\* a loop that runs once too often
LoopContinues_OffByOne(cfg, a) == a <= cfg.retryAttempts

\* executeWithRetry, line 116: the loop test
LoopContinues(cfg, a) == a < cfg.retryAttempts

\* a classification that forgets status 404
IsTerminal_Without404(status) == status \in {"401", "403"}

\* executeWithRetry, lines 128-132: the statuses that are re-thrown at once
IsTerminal(status) == status \in {"401", "403", "404"}

\* executeWithRetry, line 137
IsRateLimited(status) == status = "429"

\* executeWithRetry, line 155: a backoff follows a failure except on the last attempt
BackoffFollows(cfg, a) == a < cfg.retryAttempts - 1

(***************************************************************************)
(* github.js: what each exported operation makes of executeWithRetry's end *)
(* (the try/catch around it). "value" is a normal return with the          *)
(* response's data, "true"/"false" the boolean returned, "throw" a new     *)
(* Error raised to the caller.                                             *)
(***************************************************************************)
OperationResult(op, kind, status) ==
  IF kind = "returned"
    THEN IF op \in {"fetchUsers", "validateUser"} THEN "value" ELSE "true"
  ELSE IF op \in {"fetchUsers", "validateUser"} THEN "throw"
  ELSE IF status = "404" THEN "false"
  ELSE IF status \in {"401", "403"} THEN "throw"
  ELSE "false"

NoOutcome == [kind |-> "none", status |-> "ok", result |-> "none"]

\* the end of executeWithRetry and of the operation around it
Ended(op, kind, status) ==
  [kind |-> kind, status |-> status, result |-> OperationResult(op, kind, status)]

(***************************************************************************)
(* SpecRetry: the state after the module is loaded, and one action per     *)
(* step of executeWithRetry between two awaits                             *)
(***************************************************************************)
\* github.js and progress.js after the modules are loaded
ModulesLoaded ==
  /\ rateLimitInfo = [remaining |-> InitialRemaining, reset |-> 0, limit |-> InitialRemaining]
  /\ now = 0
  /\ pc = "idle"
  /\ operation = "none"
  /\ attempt = 0
  /\ lastError = "ok"
  /\ wakeAt = 0
  /\ outcome = NoOutcome
  /\ calls = 0
  /\ n429 = 0
  /\ waits = 0
  /\ refreshes = 0
  /\ progress = Null
  /\ file = NoFile
  /\ resumed = FALSE

\* the process has been launched: new GitHubAutoFollow() / new GitHubAutoUnfollow()
Constructed ==
  /\ run = 1
  /\ target = "t1"
  /\ mode = "followers"
  /\ spc = "start"
  /\ isRunning = FALSE
  /\ shouldStop = FALSE
  /\ currentPage = 1
  /\ hasMorePages = TRUE
  /\ users = <<>>
  /\ selectedUsers = <<>>
  /\ idx = 1
  /\ exitCode = "none"
  /\ signalled = FALSE
  /\ terminal = FALSE
  /\ errors = 0
  /\ fired = {}
  /\ taken = {}
  /\ pageWrites = <<>>

\* the configurations of the model: retryAttempts within validateConfig's 1..10, one
\* page size, and the follow percentages of the two bots' use
Configs(attempts, percentages) ==
  [retryAttempts : attempts, retryDelay : {1}, perPage : {PerPage},
   followPercentage : percentages]

InitRetry ==
  /\ ModulesLoaded
  /\ Constructed
  /\ config \in Configs(1 .. MaxRetryAttempts, {100})
  /\ variant = "follow"
  /\ dryRun = FALSE
  /\ remote = <<>>

\* a loop whose retries invoke the operation without checking the rate limit again
LoopTop_SkipsCheck(a, err) ==
  /\ attempt' = a
  /\ IF LoopContinues(config, a)
       THEN /\ pc' = "call"
            /\ outcome' = outcome
       ELSE /\ pc' = "thrown"
            /\ outcome' = Ended(operation, "thrown", err)

\* the top of the for loop for the value a of attempt: the next iteration, or throw lastError
LoopTop(a, err) ==
  /\ attempt' = a
  /\ IF LoopContinues(config, a)
       THEN /\ pc' = "check"
            /\ outcome' = outcome
       ELSE /\ pc' = "thrown"
            /\ outcome' = Ended(operation, "thrown", err)

\* an exported operation calls executeWithRetry(apiCall, config, operation)
Execute(op) ==
  /\ pc = "idle"
  /\ operation' = op
  /\ lastError' = "ok"
  /\ calls' = 0
  /\ n429' = 0
  /\ waits' = 0
  /\ refreshes' = 0
  /\ outcome' = NoOutcome
  /\ attempt' = 0
  /\ pc' = IF LoopContinues(config, 0) THEN "check" ELSE "thrown"
  /\ UNCHANGED <<rateLimitInfo, now, config, wakeAt>>
  /\ UNCHANGED notRetryVars

\* checkRateLimit up to its first await: returns at once, or sets the timer
CheckRateLimit ==
  /\ pc = "check"
  /\ IF NearlyExhausted(rateLimitInfo) /\ RateWaitTime(rateLimitInfo, now) > 0
       THEN /\ pc' = "sleeping"
            /\ wakeAt' = now + RateWaitTime(rateLimitInfo, now) + MarginTicks
       ELSE /\ pc' = "call"
            /\ wakeAt' = wakeAt
  /\ UNCHANGED <<rateLimitInfo, now, config, operation, attempt, lastError, outcome,
                 calls, n429, waits, refreshes>>
  /\ UNCHANGED notRetryVars

\* a checkRateLimit that returns when its timer fires, without asking for the status
RateLimitWake_NoRefresh ==
  /\ pc = "sleeping"
  /\ wakeAt <= MaxNow
  /\ now' = Max(now, wakeAt)
  /\ wakeAt' = 0
  /\ pc' = "call"
  /\ UNCHANGED <<rateLimitInfo, config, operation, attempt, lastError, outcome,
                 calls, n429, waits, refreshes>>
  /\ UNCHANGED notRetryVars

\* the timer of checkRateLimit fires; rateLimit.get() is sent
RateLimitWake ==
  /\ pc = "sleeping"
  /\ wakeAt <= MaxNow
  /\ now' = Max(now, wakeAt)
  /\ wakeAt' = 0
  /\ pc' = "refresh"
  /\ refreshes' = refreshes + 1
  /\ UNCHANGED <<rateLimitInfo, config, operation, attempt, lastError, outcome,
                 calls, n429, waits>>
  /\ UNCHANGED notRetryVars

\* rateLimit.get() answers: its headers are recorded
RefreshSucceeds(h) ==
  /\ pc = "refresh"
  /\ rateLimitInfo' = updateRateLimitInfo(rateLimitInfo, h)
  /\ pc' = "call"
  /\ UNCHANGED <<now, config, operation, attempt, lastError, wakeAt, outcome,
                 calls, n429, waits, refreshes>>
  /\ UNCHANGED notRetryVars

\* rateLimit.get() fails: the error is logged and swallowed
RefreshFails ==
  /\ pc = "refresh"
  /\ pc' = "call"
  /\ UNCHANGED <<rateLimitInfo, now, config, operation, attempt, lastError, wakeAt, outcome,
                 calls, n429, waits, refreshes>>
  /\ UNCHANGED notRetryVars

\* apiCall() answers: the headers are recorded and the response is returned
ApiCallSucceeds(h) ==
  /\ pc = "call"
  /\ calls' = calls + 1
  /\ rateLimitInfo' = updateRateLimitInfo(rateLimitInfo, h)
  /\ pc' = "returned"
  /\ outcome' = Ended(operation, "returned", "ok")
  /\ UNCHANGED <<now, config, operation, attempt, lastError, wakeAt, n429, waits, refreshes>>
  /\ UNCHANGED notRetryVars

\* apiCall() fails with a terminal status: the error is re-thrown
ApiCallFailsTerminal(status) ==
  /\ pc = "call"
  /\ IsTerminal(status)
  /\ calls' = calls + 1
  /\ lastError' = status
  /\ pc' = "thrown"
  /\ outcome' = Ended(operation, "thrown", status)
  /\ UNCHANGED <<rateLimitInfo, now, config, operation, attempt, wakeAt, n429, waits, refreshes>>
  /\ UNCHANGED notRetryVars

\* a 429 whose retry is not counted: a reset that has passed repeats the same attempt
ApiCallRateLimited_NotCounted(resetTime) ==
  /\ pc = "call"
  /\ ~IsTerminal("429") /\ IsRateLimited("429")
  /\ calls' = calls + 1
  /\ n429' = n429 + 1
  /\ lastError' = "429"
  /\ IF resetTime # NoHeader
       THEN IF HeaderValue(resetTime) - now + MarginTicks > 0
              THEN /\ pc' = "waiting"
                   /\ wakeAt' = now + (HeaderValue(resetTime) - now + MarginTicks)
                   /\ waits' = waits + 1
                   /\ UNCHANGED <<attempt, outcome>>
              ELSE /\ LoopTop(attempt, "429")
                   /\ UNCHANGED <<wakeAt, waits>>
       ELSE /\ pc' = "waiting"
            /\ wakeAt' = now + getRetryDelay(config, attempt)
            /\ waits' = waits + 1
            /\ UNCHANGED <<attempt, outcome>>
  /\ UNCHANGED <<rateLimitInfo, now, config, operation, refreshes>>
  /\ UNCHANGED notRetryVars

\* apiCall() fails with 429: wait for the reset of the error's headers (when that is in
\* the future), or back off when the header is missing; then continue
ApiCallRateLimited(resetTime) ==
  /\ pc = "call"
  /\ ~IsTerminal("429") /\ IsRateLimited("429")
  /\ calls' = calls + 1
  /\ n429' = n429 + 1
  /\ lastError' = "429"
  /\ IF resetTime # NoHeader
       THEN IF HeaderValue(resetTime) - now + MarginTicks > 0
              THEN /\ pc' = "waiting"
                   /\ wakeAt' = now + (HeaderValue(resetTime) - now + MarginTicks)
                   /\ waits' = waits + 1
                   /\ UNCHANGED <<attempt, outcome>>
              ELSE /\ LoopTop(attempt + 1, "429")
                   /\ UNCHANGED <<wakeAt, waits>>
       ELSE /\ pc' = "waiting"
            /\ wakeAt' = now + getRetryDelay(config, attempt)
            /\ waits' = waits + 1
            /\ UNCHANGED <<attempt, outcome>>
  /\ UNCHANGED <<rateLimitInfo, now, config, operation, refreshes>>
  /\ UNCHANGED notRetryVars

\* apiCall() fails with another error: back off unless this was the last attempt
ApiCallFailsOther(status) ==
  /\ pc = "call"
  /\ ~IsTerminal(status) /\ ~IsRateLimited(status)
  /\ calls' = calls + 1
  /\ lastError' = status
  /\ IF BackoffFollows(config, attempt)
       THEN /\ pc' = "waiting"
            /\ wakeAt' = now + getRetryDelay(config, attempt)
            /\ waits' = waits + 1
            /\ UNCHANGED <<attempt, outcome>>
       ELSE /\ LoopTop(attempt + 1, status)
            /\ UNCHANGED <<wakeAt, waits>>
  /\ UNCHANGED <<rateLimitInfo, now, config, operation, n429, refreshes>>
  /\ UNCHANGED notRetryVars

\* the timer set in the catch block fires: the loop goes on with attempt + 1
WaitDone ==
  /\ pc = "waiting"
  /\ wakeAt <= MaxNow
  /\ now' = Max(now, wakeAt)
  /\ wakeAt' = 0
  /\ LoopTop(attempt + 1, lastError)
  /\ UNCHANGED <<rateLimitInfo, config, operation, lastError, calls, n429,
                 waits, refreshes>>
  /\ UNCHANGED notRetryVars

\* the operation hands its result to its caller; the locals of the call are gone
Finish ==
  /\ pc \in {"returned", "thrown"}
  /\ pc' = "idle"
  /\ operation' = "none"
  /\ attempt' = 0
  /\ lastError' = "ok"
  /\ wakeAt' = 0
  /\ outcome' = NoOutcome
  /\ calls' = 0
  /\ n429' = 0
  /\ waits' = 0
  /\ refreshes' = 0
  /\ UNCHANGED <<rateLimitInfo, now, config>>
  /\ UNCHANGED notRetryVars

\* time passes while a request is in flight or the bot is between two operations
Tick ==
  /\ pc \in {"idle", "call", "refresh"}
  /\ now < MaxNow
  /\ now' = now + 1
  /\ UNCHANGED <<rateLimitInfo, config, pc, operation, attempt, lastError, wakeAt, outcome,
                 calls, n429, waits, refreshes>>
  /\ UNCHANGED notRetryVars

RetryNext ==
  \/ \E op \in Operations : Execute(op)
  \/ CheckRateLimit
  \/ RateLimitWake
  \/ \E h \in Headers : RefreshSucceeds(h)
  \/ RefreshFails
  \/ \E h \in Headers : ApiCallSucceeds(h)
  \/ \E s \in TerminalStatus : ApiCallFailsTerminal(s)
  \/ \E r \in HeaderOf(0 .. MaxNow - 1) : ApiCallRateLimited(r)
  \/ \E s \in ErrorStatus : ApiCallFailsOther(s)
  \/ WaitDone
  \/ Finish
  \/ Tick

SpecRetry == InitRetry /\ [][RetryNext]_vars

(***************************************************************************)
(* progress.js                                                             *)
(*                                                                         *)
(* A JavaScript value that may be a number or a string is a record         *)
(* {type, val}: the unfollow bot passes its --user argument ("user1")      *)
(* where initializeProgress expects the numeric session limit.             *)
(***************************************************************************)
Num(n) == [type |-> "number", val |-> n]
Str == [type |-> "string", val |-> 0]

\* a < b for a number a and a value b: false when b is not numeric (NaN)
JsLess(a, b) == b.type = "number" /\ a < b.val

\* a >= b - k for a number a and a value b: false when b is not numeric (NaN)
JsGeMinus(a, b, k) == b.type = "number" /\ a >= b.val - k

RangeOf(seq) == {seq[i] : i \in 1 .. Len(seq)}

\* progress.js:155  totalFollowed % 10 === 0
SaveEvery == 10
\* progress.js:156  totalFollowed >= sessionLimit - 5
NearLimit == 5

DEFAULT_PROGRESS ==
  [targetUsername |-> "", mode |-> "", followedUsers |-> <<>>, currentPage |-> 1,
   totalFollowed |-> 0, sessionLimit |-> Num(0)]

\* loadProgress(): the defaults when there is no file; else the stored object with a
\* sessionLimit that is not a number replaced by 0
loadProgress(f) ==
  IF f = NoFile THEN DEFAULT_PROGRESS
  ELSE [f EXCEPT !.sessionLimit = IF @.type = "number" THEN @ ELSE Num(0)]

\* a saveProgress that writes the record without its processed list
saveProgress_DropsList(p) == [p EXCEPT !.followedUsers = <<>>]

\* saveProgress(progress): the whole object overwrites the file
saveProgress(p) == p

\* a continuation test that forgets the mode
isSameSession_NoMode(existing, targetUsername, m) ==
  /\ existing.targetUsername = targetUsername
  /\ JsLess(existing.totalFollowed, existing.sessionLimit)

\* initializeProgress, lines 109-112
isSameSession(existing, targetUsername, m) ==
  /\ existing.targetUsername = targetUsername
  /\ existing.mode = m
  /\ JsLess(existing.totalFollowed, existing.sessionLimit)

\* initializeProgress(targetUsername, mode, sessionLimit): the object returned, the
\* file afterwards, and the branch taken
initializeProgress(f, targetUsername, m, sessionLimit) ==
  LET existingProgress == loadProgress(f)
      newProgress == [DEFAULT_PROGRESS EXCEPT !.targetUsername = targetUsername,
                                              !.mode = m,
                                              !.sessionLimit = sessionLimit]
  IN IF isSameSession(existingProgress, targetUsername, m)
       THEN [progress |-> existingProgress, file |-> f, resumed |-> TRUE]
       ELSE [progress |-> newProgress, file |-> saveProgress(newProgress), resumed |-> FALSE]

\* an addFollowedUser that forgets to spread the users recorded so far
addFollowedUser_DropsList(p, f, username) ==
  LET updatedProgress == [p EXCEPT !.followedUsers = <<username>>,
                                   !.totalFollowed = @ + 1]
  IN [progress |-> updatedProgress, file |-> saveProgress(updatedProgress)]

\* an addFollowedUser that records the user and forgets the counter
addFollowedUser_NoCount(p, f, username) ==
  LET updatedProgress == [p EXCEPT !.followedUsers = Append(@, username)]
  IN [progress |-> updatedProgress, file |-> saveProgress(updatedProgress)]

\* an addFollowedUser that saves only near the session limit
addFollowedUser_NoPeriodicSave(p, f, username) ==
  LET updatedProgress == [p EXCEPT !.followedUsers = Append(@, username),
                                   !.totalFollowed = @ + 1]
      shouldSave == JsGeMinus(updatedProgress.totalFollowed,
                              updatedProgress.sessionLimit, NearLimit)
  IN [progress |-> updatedProgress,
      file |-> IF shouldSave THEN saveProgress(updatedProgress) ELSE f]

\* addFollowedUser(progress, username): the object returned and the file afterwards
addFollowedUser(p, f, username) ==
  LET updatedProgress == [p EXCEPT !.followedUsers = Append(@, username),
                                   !.totalFollowed = @ + 1]
      shouldSave == \/ updatedProgress.totalFollowed % SaveEvery = 0
                    \/ JsGeMinus(updatedProgress.totalFollowed,
                                 updatedProgress.sessionLimit, NearLimit)
  IN [progress |-> updatedProgress,
      file |-> IF shouldSave THEN saveProgress(updatedProgress) ELSE f]

\* updateCurrentPage(progress, page): the object returned, which is also saved
updateCurrentPage(p, page) == [p EXCEPT !.currentPage = page]

\* an isUserFollowed that never finds the user
isUserFollowed_Never(p, username) == FALSE

\* isUserFollowed(progress, username)
isUserFollowed(p, username) == p # Null /\ username \in RangeOf(p.followedUsers)

\* clearProgress(): the defaults overwrite an existing file
clearProgress(f) == IF f # NoFile THEN DEFAULT_PROGRESS ELSE f

(***************************************************************************)
(* SpecProgress: progress.js as a library. Its caller holds one progress   *)
(* object and calls the exported functions in any order.                   *)
(***************************************************************************)
Users == {"u1", "u2", "u3"}
Targets == {"t1", "t2"}
Modes == {"followers", "following"}
\* the session limits passed to initializeProgress: numbers, or the unfollow bot's string
SessionLimits == {Num(1), Num(2), Num(8), Str}

LibInitializeProgress(t, m, l) ==
  /\ LET r == initializeProgress(file, t, m, l)
     IN /\ progress' = r.progress
        /\ file' = r.file
        /\ resumed' = r.resumed
  /\ UNCHANGED notProgVars

LibAddFollowedUser(u) ==
  /\ progress # Null
  /\ Len(progress.followedUsers) < MaxFollowed
  /\ LET r == addFollowedUser(progress, file, u)
     IN /\ progress' = r.progress
        /\ file' = r.file
  /\ UNCHANGED resumed
  /\ UNCHANGED notProgVars

LibUpdateCurrentPage(page) ==
  /\ progress # Null
  /\ progress' = updateCurrentPage(progress, page)
  /\ file' = saveProgress(progress')
  /\ UNCHANGED resumed
  /\ UNCHANGED notProgVars

LibSaveProgress ==
  /\ progress # Null
  /\ file' = saveProgress(progress)
  /\ UNCHANGED <<progress, resumed>>
  /\ UNCHANGED notProgVars

LibClearProgress ==
  /\ file' = clearProgress(file)
  /\ UNCHANGED <<progress, resumed>>
  /\ UNCHANGED notProgVars

ProgressNext ==
  \/ \E t \in Targets, m \in Modes, l \in SessionLimits : LibInitializeProgress(t, m, l)
  \/ \E u \in Users : LibAddFollowedUser(u)
  \/ \E page \in 1 .. MaxPage : LibUpdateCurrentPage(page)
  \/ LibSaveProgress
  \/ LibClearProgress

SpecProgress == InitRetry /\ [][ProgressNext]_vars

(***************************************************************************)
(* config.js: selection                                                    *)
(***************************************************************************)
\* a calculateUsersToFollow that rounds to the nearest integer
calculateUsersToFollow_Rounds(cfg, totalUsers) ==
  (totalUsers * cfg.followPercentage + 50) \div 100

\* calculateUsersToFollow(config, totalUsers) = floor(totalUsers * followPercentage),
\* with followPercentage in hundredths
calculateUsersToFollow(cfg, totalUsers) == (totalUsers * cfg.followPercentage) \div 100

\* shuffleArray(array): Fisher-Yates can produce every permutation of the array
shuffleArray(array) ==
  LET n == Len(array)
      Bijections == {f \in [1 .. n -> 1 .. n] : \A i, j \in 1 .. n : f[i] = f[j] => i = j}
  IN {[i \in 1 .. n |-> array[f[i]]] : f \in Bijections}

(***************************************************************************)
(* The two bots. One process run goes from "start" (the signal handlers    *)
(* are installed and initialize() is in flight) to "exited". The states    *)
(* in AwaitStates are those in which the process waits for a promise: a    *)
(* signal is handled, and the process can be killed, only there.           *)
(***************************************************************************)
AwaitStates == {"start", "apiStatus", "fetch", "isFollowing", "thinking", "act", "pause",
                "retryDelay", "exited"}

\* the target's list: pages of at most PerPage users; a page past the end is empty
RemoteLists ==
  { << <<"u1", "u2">>, <<"u3">> >>,
    << <<"u1", "u2">>, <<"u2", "u3">> >>,
    << <<"u1">> >> }

fetchPage(list, page) == IF page <= Len(list) THEN list[page] ELSE <<>>

\* how fetchUsers ends for the session: the page, or one of its three Errors
\* ("Authentication failed or insufficient permissions: ...",
\*  "User '...' not found or their ... list is private", "Failed to fetch users: ...")
FetchResults == {"users", "throwAuth", "throwNotFound", "throwOther"}

\* how isFollowing, followUser and unfollowUser end for the session; their only Error
\* is "Authentication failed or insufficient permissions ..."
BoolResults == {"true", "false", "throw"}

\* the session limits generateSessionLimit draws in the model
FollowLimits == {Num(2), Num(8)}

\* getSessionStats(progress).isComplete
isComplete(p) == JsGeMinus(p.totalFollowed, p.sessionLimit, 0)

\* index.js:83  users.filter(user => !isUserFollowed(this.progress, user.login))
RECURSIVE FilterNew(_, _)
FilterNew(p, seq) ==
  IF seq = <<>> THEN <<>>
  ELSE (IF isUserFollowed(p, Head(seq)) THEN <<>> ELSE <<Head(seq)>>) \o FilterNew(p, Tail(seq))

\* index.js:233-235: the page errors that stop the follow session
\* ('Authentication failed', 'not found', 'insufficient permissions')
Follow_IsCritical(r) == r \in {"throwAuth", "throwNotFound"}

\* github/unfollow/index.js:347-351: the page errors that stop the unfollow session
\* ("Authentication failed", "Not Found", "insufficient permissions"); the message of
\* fetchUsers for a 404 says "not found", which "Not Found" does not match
Unfollow_IsCritical(r) == r = "throwAuth"

\* the --dry-run option: github/unfollow/index.js:432 declares it; the command line of
\* the follow bot (index.js:292-297) has no such option
DryRunFlags(v) == IF v = "unfollow" THEN BOOLEAN ELSE {FALSE}

Init ==
  /\ ModulesLoaded
  /\ Constructed
  /\ config \in Configs({3}, {50, 100})
  /\ variant \in {"follow", "unfollow"}
  /\ dryRun \in DryRunFlags(variant)
  /\ remote \in RemoteLists

(***************************************************************************)
(* index.js: the follow bot                                                *)
(***************************************************************************)

\* initialize() ends. On failure main() exits with 1. On success the progress is loaded
\* and run() goes up to its while loop, or returns when the session is complete.
Follow_Initialize(ok, limit) ==
  /\ variant = "follow"
  /\ spc = "start"
  /\ IF ~ok
       THEN /\ spc' = "exited"
            /\ exitCode' = "1"
            /\ UNCHANGED <<progVars, isRunning, shouldStop, currentPage, hasMorePages>>
       ELSE LET r == initializeProgress(file, target, mode, limit)
            IN /\ progress' = r.progress
               /\ file' = r.file
               /\ resumed' = r.resumed
               /\ shouldStop' = FALSE
               /\ IF isComplete(r.progress)
                    THEN /\ isRunning' = FALSE
                         /\ spc' = "exited"
                         /\ exitCode' = "0"
                         /\ UNCHANGED <<currentPage, hasMorePages>>
                    ELSE /\ isRunning' = TRUE
                         /\ currentPage' = r.progress.currentPage
                         /\ hasMorePages' = TRUE
                         /\ spc' = "while"
                         /\ UNCHANGED exitCode
  /\ UNCHANGED <<retryVars, variant, dryRun, remote, run, target, mode, users, selectedUsers, idx>>
  /\ terminal' = (terminal \/ ~ok)
  /\ UNCHANGED <<signalled, errors, fired, taken, pageWrites>>

\* the while condition of run(): the next page is requested, or the loop is left
Follow_WhileTest ==
  /\ variant = "follow"
  /\ spc = "while"
  /\ spc' = IF /\ hasMorePages
               /\ ~shouldStop
               /\ JsLess(progress.totalFollowed, progress.sessionLimit)
              THEN "fetch" ELSE "final"
  /\ UNCHANGED <<retryVars, progVars, variant, dryRun, remote, run, target, mode, isRunning,
                 shouldStop, currentPage, hasMorePages, users, selectedUsers, idx, exitCode>>
  /\ UNCHANGED <<signalled, terminal, errors, fired, taken, pageWrites>>

\* fetchUsers ends; on a page, processPage filters, shuffles and selects
Follow_FetchReturns(r) ==
  /\ variant = "follow"
  /\ spc = "fetch"
  /\ r \in FetchResults
  /\ IF r = "users"
       THEN LET page == fetchPage(remote, currentPage)
                newUsers == FilterNew(progress, page)
                usersToFollow == calculateUsersToFollow(config, Len(newUsers))
            IN /\ users' = page
               /\ IF page = <<>>
                    THEN /\ hasMorePages' = FALSE
                         /\ spc' = "final"
                         /\ UNCHANGED <<selectedUsers, idx>>
                    ELSE /\ hasMorePages' = hasMorePages
                         /\ idx' = 1
                         /\ IF newUsers = <<>>
                              THEN /\ selectedUsers' = <<>>
                                   /\ spc' = "pageDone"
                              ELSE /\ \E shuffledUsers \in shuffleArray(newUsers) :
                                        selectedUsers' = SubSeq(shuffledUsers, 1, usersToFollow)
                                   /\ spc' = "loop"
               /\ UNCHANGED <<progVars, shouldStop, currentPage>>
     ELSE IF Follow_IsCritical(r)
       THEN /\ shouldStop' = TRUE
            /\ spc' = "final"
            /\ UNCHANGED <<progVars, currentPage, hasMorePages, users, selectedUsers, idx>>
       ELSE /\ currentPage < MaxPage
            /\ currentPage' = currentPage + 1
            /\ progress' = updateCurrentPage(progress, currentPage + 1)
            /\ file' = saveProgress(progress')
            /\ spc' = "while"
            /\ UNCHANGED <<resumed, shouldStop, hasMorePages, users, selectedUsers, idx>>
  /\ UNCHANGED <<retryVars, variant, dryRun, remote, run, target, mode, isRunning, exitCode>>
  /\ terminal' = (terminal \/ r \in {"throwAuth", "throwNotFound"})
  /\ errors' = 0
  /\ pageWrites' = IF r = "throwOther" THEN <<file'>> ELSE pageWrites
  /\ UNCHANGED <<signalled, fired, taken>>

\* a for loop of processPage that does not test shouldStop
Follow_LoopStep_IgnoresStop(skip) ==
  /\ variant = "follow"
  /\ spc = "loop"
  /\ IF idx > Len(selectedUsers)
       THEN spc' = "pageDone" /\ idx' = idx
     ELSE IF isComplete(progress)
       THEN spc' = "pageDone" /\ idx' = idx
     ELSE IF skip
       THEN spc' = "loop" /\ idx' = idx + 1
     ELSE spc' = "isFollowing" /\ idx' = idx
  /\ UNCHANGED <<retryVars, progVars, variant, dryRun, remote, run, target, mode, isRunning,
                 shouldStop, currentPage, hasMorePages, users, selectedUsers, exitCode>>
  /\ UNCHANGED <<signalled, terminal, errors, fired, taken, pageWrites>>

\* a loop that follows on without testing the session limit
Follow_LoopStep_NoLimit(skip) ==
  /\ variant = "follow"
  /\ spc = "loop"
  /\ IF idx > Len(selectedUsers) \/ shouldStop
       THEN spc' = "pageDone" /\ idx' = idx
     ELSE IF skip
       THEN spc' = "loop" /\ idx' = idx + 1
     ELSE spc' = "isFollowing" /\ idx' = idx
  /\ UNCHANGED <<retryVars, progVars, variant, dryRun, remote, run, target, mode, isRunning,
                 shouldStop, currentPage, hasMorePages, users, selectedUsers, exitCode>>
  /\ UNCHANGED <<signalled, terminal, errors, fired, taken, pageWrites>>

\* the head of the for loop of processPage up to its first await
Follow_LoopStep(skip) ==
  /\ variant = "follow"
  /\ spc = "loop"
  /\ IF idx > Len(selectedUsers) \/ shouldStop
       THEN spc' = "pageDone" /\ idx' = idx
     ELSE IF isComplete(progress)
       THEN spc' = "pageDone" /\ idx' = idx
     ELSE IF skip
       THEN spc' = "loop" /\ idx' = idx + 1
     ELSE spc' = "isFollowing" /\ idx' = idx
  /\ UNCHANGED <<retryVars, progVars, variant, dryRun, remote, run, target, mode, isRunning,
                 shouldStop, currentPage, hasMorePages, users, selectedUsers, exitCode>>
  /\ UNCHANGED <<signalled, terminal, errors, fired, taken, pageWrites>>

\* isFollowing ends: already following is a skip, an Error stops the session
Follow_IsFollowingReturns(r) ==
  /\ variant = "follow"
  /\ spc = "isFollowing"
  /\ r \in BoolResults
  /\ IF r = "true" THEN /\ spc' = "loop"
                        /\ idx' = idx + 1
                        /\ UNCHANGED shouldStop
     ELSE IF r = "false" THEN /\ spc' = "act"
                              /\ UNCHANGED <<idx, shouldStop>>
     ELSE /\ shouldStop' = TRUE
          /\ spc' = "pageDone"
          /\ UNCHANGED idx
  /\ UNCHANGED <<retryVars, progVars, variant, dryRun, remote, run, target, mode, isRunning,
                 currentPage, hasMorePages, users, selectedUsers, exitCode>>
  /\ terminal' = (terminal \/ r = "throw")
  /\ errors' = IF r = "throw" THEN errors + 1 ELSE errors
  /\ UNCHANGED <<signalled, fired, taken, pageWrites>>

\* followUser ends: success is recorded, a failure counted, an Error stops the session
Follow_FollowUserReturns(r) ==
  /\ variant = "follow"
  /\ spc = "act"
  /\ r \in BoolResults
  /\ IF r = "true"
       THEN LET a == addFollowedUser(progress, file, selectedUsers[idx])
            IN /\ progress' = a.progress
               /\ file' = a.file
               /\ spc' = "pause"
               /\ UNCHANGED <<resumed, idx, shouldStop>>
     ELSE IF r = "false"
       THEN /\ spc' = "loop"
            /\ idx' = idx + 1
            /\ UNCHANGED <<progVars, shouldStop>>
     ELSE /\ shouldStop' = TRUE
          /\ spc' = "pageDone"
          /\ UNCHANGED <<progVars, idx>>
  /\ UNCHANGED <<retryVars, variant, dryRun, remote, run, target, mode, isRunning,
                 currentPage, hasMorePages, users, selectedUsers, exitCode>>
  /\ terminal' = (terminal \/ r = "throw")
  /\ errors' = IF r = "true" THEN errors ELSE errors + 1
  /\ UNCHANGED <<signalled, fired, taken, pageWrites>>

\* the session break and the delay after a follow are over
Follow_PauseDone ==
  /\ variant = "follow"
  /\ spc = "pause"
  /\ spc' = "loop"
  /\ idx' = idx + 1
  /\ UNCHANGED <<retryVars, progVars, variant, dryRun, remote, run, target, mode, isRunning,
                 shouldStop, currentPage, hasMorePages, users, selectedUsers, exitCode>>
  /\ UNCHANGED <<signalled, terminal, errors, fired, taken, pageWrites>>

\* a page transition that keeps the page of a processPage that a stop cut short
Follow_PageDone_KeepsCutPage ==
  /\ variant = "follow"
  /\ spc = "pageDone"
  /\ currentPage' = IF shouldStop /\ idx <= Len(selectedUsers)
                      THEN currentPage ELSE currentPage + 1
  /\ progress' = updateCurrentPage(progress, currentPage')
  /\ file' = saveProgress(progress')
  /\ hasMorePages' = IF Len(users) < config.perPage THEN FALSE ELSE hasMorePages
  /\ spc' = "while"
  /\ UNCHANGED <<retryVars, resumed, variant, dryRun, remote, run, target, mode, isRunning,
                 shouldStop, users, selectedUsers, idx, exitCode>>
  /\ pageWrites' = <<file'>>
  /\ UNCHANGED <<signalled, terminal, errors, fired, taken>>

\* processPage has returned: the page number is advanced and saved
Follow_PageDone ==
  /\ variant = "follow"
  /\ spc = "pageDone"
  /\ currentPage' = currentPage + 1
  /\ progress' = updateCurrentPage(progress, currentPage + 1)
  /\ file' = saveProgress(progress')
  /\ hasMorePages' = IF Len(users) < config.perPage THEN FALSE ELSE hasMorePages
  /\ spc' = "while"
  /\ UNCHANGED <<retryVars, resumed, variant, dryRun, remote, run, target, mode, isRunning,
                 shouldStop, users, selectedUsers, idx, exitCode>>
  /\ pageWrites' = <<file'>>
  /\ UNCHANGED <<signalled, terminal, errors, fired, taken>>

\* after the loop: the final save, the statistics, finally isRunning = false
Follow_Final ==
  /\ variant = "follow"
  /\ spc = "final"
  /\ file' = saveProgress(progress)
  /\ isRunning' = FALSE
  /\ spc' = "exited"
  /\ exitCode' = "0"
  /\ UNCHANGED <<retryVars, progress, resumed, variant, dryRun, remote, run, target, mode,
                 shouldStop, currentPage, hasMorePages, users, selectedUsers, idx>>
  /\ UNCHANGED <<signalled, terminal, errors, fired, taken, pageWrites>>

(***************************************************************************)
(* github/unfollow/index.js: the unfollow bot                              *)
(***************************************************************************)
\* the tiers of break that start() tests after an unfollow (checkHumanBreak)
BreakTiers == {"mini", "medium", "long"}

\* a choice that sleeps every break that fired
BreakTaken_Compounds(f) == f

\* github/unfollow/index.js:258-285: if (longBreak.shouldBreak) ... else if
\* (mediumBreak.shouldBreak) ... else if (miniBreak.shouldBreak) ...
BreakTaken(f) ==
  IF "long" \in f THEN {"long"}
  ELSE IF "medium" \in f THEN {"medium"}
  ELSE IF "mini" \in f THEN {"mini"}
  ELSE {}


\* an initialize() that sets up the progress record before it tests the token and
\* the target
Unfollow_Initialize_LoadsFirst(ok) ==
  /\ variant = "unfollow"
  /\ spc = "start"
  /\ LET r == initializeProgress(file, target, mode, Str)
     IN /\ progress' = r.progress
        /\ file' = r.file
        /\ resumed' = r.resumed
  /\ IF ~ok \/ dryRun
       THEN /\ spc' = "exited"
            /\ exitCode' = IF ok THEN "0" ELSE "1"
            /\ UNCHANGED <<isRunning, shouldStop>>
       ELSE /\ isRunning' = TRUE
            /\ shouldStop' = FALSE
            /\ spc' = "apiStatus"
            /\ UNCHANGED exitCode
  /\ UNCHANGED <<retryVars, variant, dryRun, remote, run, target, mode, currentPage,
                 hasMorePages, users, selectedUsers, idx>>
  /\ terminal' = (terminal \/ ~ok)
  /\ UNCHANGED <<signalled, errors, fired, taken, pageWrites>>

\* initialize() ends. On failure main() exits with 1. On success the progress is
\* initialized, with the --user argument in the place of the session limit; then a dry
\* run returns from main() and the process ends with nothing left to do, and a live run
\* calls start(), which goes up to its await of checkAPIStatus.
Unfollow_Initialize(ok) ==
  /\ variant = "unfollow"
  /\ spc = "start"
  /\ IF ~ok
       THEN /\ spc' = "exited"
            /\ exitCode' = "1"
            /\ UNCHANGED <<progVars, isRunning, shouldStop>>
       ELSE LET r == initializeProgress(file, target, mode, Str)
            IN /\ progress' = r.progress
               /\ file' = r.file
               /\ resumed' = r.resumed
               /\ IF dryRun
                    THEN /\ spc' = "exited"
                         /\ exitCode' = "0"
                         /\ UNCHANGED <<isRunning, shouldStop>>
                    ELSE /\ isRunning' = TRUE
                         /\ shouldStop' = FALSE
                         /\ spc' = "apiStatus"
                         /\ UNCHANGED exitCode
  /\ UNCHANGED <<retryVars, variant, dryRun, remote, run, target, mode, currentPage, hasMorePages,
                 users, selectedUsers, idx>>
  /\ terminal' = (terminal \/ ~ok)
  /\ UNCHANGED <<signalled, errors, fired, taken, pageWrites>>

\* checkAPIStatus ends; the locals of start() are set
Unfollow_ApiStatusReturns ==
  /\ variant = "unfollow"
  /\ spc = "apiStatus"
  /\ currentPage' = progress.currentPage
  /\ hasMorePages' = TRUE
  /\ spc' = "while"
  /\ UNCHANGED <<retryVars, progVars, variant, dryRun, remote, run, target, mode, isRunning,
                 shouldStop, users, selectedUsers, idx, exitCode>>
  /\ UNCHANGED <<signalled, terminal, errors, fired, taken, pageWrites>>

\* the while condition of start()
Unfollow_WhileTest ==
  /\ variant = "unfollow"
  /\ spc = "while"
  /\ spc' = IF hasMorePages /\ ~shouldStop THEN "fetch" ELSE "final"
  /\ UNCHANGED <<retryVars, progVars, variant, dryRun, remote, run, target, mode, isRunning,
                 shouldStop, currentPage, hasMorePages, users, selectedUsers, idx, exitCode>>
  /\ UNCHANGED <<signalled, terminal, errors, fired, taken, pageWrites>>

\* fetchUsers ends; on a page, the whole page is shuffled and a prefix is selected
Unfollow_FetchReturns(r) ==
  /\ variant = "unfollow"
  /\ spc = "fetch"
  /\ r \in FetchResults
  /\ IF r = "users"
       THEN LET page == fetchPage(remote, currentPage)
                usersToProcess == calculateUsersToFollow(config, Len(page))
            IN /\ users' = page
               /\ IF page = <<>>
                    THEN /\ hasMorePages' = FALSE
                         /\ spc' = "final"
                         /\ UNCHANGED <<selectedUsers, idx>>
                    ELSE /\ hasMorePages' = hasMorePages
                         /\ idx' = 1
                         /\ \E shuffledUsers \in shuffleArray(page) :
                              selectedUsers' = SubSeq(shuffledUsers, 1, usersToProcess)
                         /\ spc' = "loop"
     ELSE IF Unfollow_IsCritical(r)
       THEN /\ spc' = "final"
            /\ UNCHANGED <<hasMorePages, users, selectedUsers, idx>>
       ELSE /\ spc' = "retryDelay"
            /\ UNCHANGED <<hasMorePages, users, selectedUsers, idx>>
  /\ UNCHANGED <<retryVars, progVars, variant, dryRun, remote, run, target, mode, isRunning,
                 shouldStop, currentPage, exitCode>>
  /\ terminal' = (terminal \/ r \in {"throwAuth", "throwNotFound"})
  /\ UNCHANGED <<signalled, errors, fired, taken, pageWrites>>

\* the doubled delay after a page error is over: the same page is tried again
Unfollow_RetryDelayDone ==
  /\ variant = "unfollow"
  /\ spc = "retryDelay"
  /\ spc' = "while"
  /\ UNCHANGED <<retryVars, progVars, variant, dryRun, remote, run, target, mode, isRunning,
                 shouldStop, currentPage, hasMorePages, users, selectedUsers, idx, exitCode>>
  /\ UNCHANGED <<signalled, terminal, errors, fired, taken, pageWrites>>

\* the head of the for loop over the selected users
Unfollow_LoopStep ==
  /\ variant = "unfollow"
  /\ spc = "loop"
  /\ spc' = IF idx > Len(selectedUsers) \/ shouldStop THEN "pageDone" ELSE "isFollowing"
  /\ UNCHANGED <<retryVars, progVars, variant, dryRun, remote, run, target, mode, isRunning,
                 shouldStop, currentPage, hasMorePages, users, selectedUsers, idx, exitCode>>
  /\ UNCHANGED <<signalled, terminal, errors, fired, taken, pageWrites>>

\* a loop body that goes on to unfollow whatever isFollowing answered
Unfollow_IsFollowingReturns_NoCheck(r, skip, think) ==
  /\ variant = "unfollow"
  /\ spc = "isFollowing"
  /\ r \in BoolResults
  /\ IF r = "throw"
       THEN /\ shouldStop' = TRUE
            /\ spc' = "pageDone"
            /\ UNCHANGED idx
     ELSE IF skip \/ isUserFollowed(progress, selectedUsers[idx])
       THEN /\ spc' = "loop"
            /\ idx' = idx + 1
            /\ UNCHANGED shouldStop
     ELSE /\ spc' = IF think THEN "thinking" ELSE "act"
          /\ UNCHANGED <<idx, shouldStop>>
  /\ UNCHANGED <<retryVars, progVars, variant, dryRun, remote, run, target, mode, isRunning,
                 currentPage, hasMorePages, users, selectedUsers, exitCode>>
  /\ terminal' = (terminal \/ r = "throw")
  /\ UNCHANGED <<signalled, errors, fired, taken, pageWrites>>

\* isFollowing ends: not following, the random skip and an already processed user are
\* skips; otherwise the unfollow comes after the thinking pause, if one is drawn
Unfollow_IsFollowingReturns(r, skip, think) ==
  /\ variant = "unfollow"
  /\ spc = "isFollowing"
  /\ r \in BoolResults
  /\ IF r = "throw"
       THEN /\ shouldStop' = TRUE
            /\ spc' = "pageDone"
            /\ UNCHANGED idx
     ELSE IF r = "false" \/ skip \/ isUserFollowed(progress, selectedUsers[idx])
       THEN /\ spc' = "loop"
            /\ idx' = idx + 1
            /\ UNCHANGED shouldStop
     ELSE /\ spc' = IF think THEN "thinking" ELSE "act"
          /\ UNCHANGED <<idx, shouldStop>>
  /\ UNCHANGED <<retryVars, progVars, variant, dryRun, remote, run, target, mode, isRunning,
                 currentPage, hasMorePages, users, selectedUsers, exitCode>>
  /\ terminal' = (terminal \/ r = "throw")
  /\ UNCHANGED <<signalled, errors, fired, taken, pageWrites>>

\* the thinking pause is over: unfollowUser is called
Unfollow_ThinkingDone ==
  /\ variant = "unfollow"
  /\ spc = "thinking"
  /\ spc' = "act"
  /\ UNCHANGED <<retryVars, progVars, variant, dryRun, remote, run, target, mode, isRunning,
                 shouldStop, currentPage, hasMorePages, users, selectedUsers, idx, exitCode>>
  /\ UNCHANGED <<signalled, terminal, errors, fired, taken, pageWrites>>

\* a catch block that logs the Error of unfollowUser and goes on with the next user
Unfollow_UnfollowUserReturns_GoesOn(r) ==
  /\ variant = "unfollow"
  /\ spc = "act"
  /\ r \in BoolResults
  /\ IF r = "true"
       THEN LET a == addFollowedUser(progress, file, selectedUsers[idx])
            IN /\ progress' = a.progress
               /\ file' = saveProgress(a.progress)
               /\ \E f \in SUBSET BreakTiers : fired' = f /\ taken' = BreakTaken(f)
               /\ spc' = "pause"
               /\ UNCHANGED <<resumed, idx, shouldStop>>
       ELSE /\ spc' = "loop"
            /\ idx' = idx + 1
            /\ UNCHANGED <<progVars, shouldStop, fired, taken>>
  /\ UNCHANGED <<retryVars, variant, dryRun, remote, run, target, mode, isRunning,
                 currentPage, hasMorePages, users, selectedUsers, exitCode>>
  /\ terminal' = (terminal \/ r = "throw")
  /\ UNCHANGED <<signalled, errors, pageWrites>>

\* unfollowUser ends: success is recorded and saved, the three tiers of break are
\* tested and the break to sleep is chosen; an Error stops the session
Unfollow_UnfollowUserReturns(r) ==
  /\ variant = "unfollow"
  /\ spc = "act"
  /\ r \in BoolResults
  /\ IF r = "true"
       THEN LET a == addFollowedUser(progress, file, selectedUsers[idx])
            IN /\ progress' = a.progress
               /\ file' = saveProgress(a.progress)
               /\ \E f \in SUBSET BreakTiers : fired' = f /\ taken' = BreakTaken(f)
               /\ spc' = "pause"
               /\ UNCHANGED <<resumed, idx, shouldStop>>
     ELSE IF r = "false"
       THEN /\ spc' = "loop"
            /\ idx' = idx + 1
            /\ UNCHANGED <<progVars, shouldStop, fired, taken>>
     ELSE /\ shouldStop' = TRUE
          /\ spc' = "pageDone"
          /\ UNCHANGED <<progVars, idx, fired, taken>>
  /\ UNCHANGED <<retryVars, variant, dryRun, remote, run, target, mode, isRunning,
                 currentPage, hasMorePages, users, selectedUsers, exitCode>>
  /\ terminal' = (terminal \/ r = "throw")
  /\ UNCHANGED <<signalled, errors, pageWrites>>

\* the break, if one was chosen, and the delay after an unfollow are over
Unfollow_PauseDone ==
  /\ variant = "unfollow"
  /\ spc = "pause"
  /\ spc' = "loop"
  /\ idx' = idx + 1
  /\ UNCHANGED <<retryVars, progVars, variant, dryRun, remote, run, target, mode, isRunning,
                 shouldStop, currentPage, hasMorePages, users, selectedUsers, exitCode>>
  /\ fired' = {}
  /\ taken' = {}
  /\ UNCHANGED <<signalled, terminal, errors, pageWrites>>

\* updateCurrentPage(currentPage, this.progress), the call of the unfollow bot with the
\* page in the place of the record: { ...page, currentPage: record }, and the spread of
\* a number has no property, so the object saved has the one property currentPage
MisplacedPage(page, p) == [currentPage |-> p]

\* a page transition that forgets currentPage++
Unfollow_PageDone_SamePage ==
  /\ variant = "unfollow"
  /\ spc = "pageDone"
  /\ currentPage' = currentPage
  /\ file' = saveProgress(progress)
  /\ hasMorePages' = IF Len(users) < config.perPage THEN FALSE ELSE hasMorePages
  /\ spc' = "while"
  /\ UNCHANGED <<retryVars, progress, resumed, variant, dryRun, remote, run, target, mode,
                 isRunning, shouldStop, users, selectedUsers, idx, exitCode>>
  /\ pageWrites' = <<saveProgress(MisplacedPage(currentPage, progress)), saveProgress(progress)>>
  /\ UNCHANGED <<signalled, terminal, errors, fired, taken>>

\* after the for loop: currentPage++, then updateCurrentPage(currentPage, this.progress)
\* with its arguments in the wrong order and its result dropped, so this.progress
\* keeps its page, then saveProgress(this.progress), which is what the file holds
Unfollow_PageDone ==
  /\ variant = "unfollow"
  /\ spc = "pageDone"
  /\ currentPage' = currentPage + 1
  /\ file' = saveProgress(progress)
  /\ hasMorePages' = IF Len(users) < config.perPage THEN FALSE ELSE hasMorePages
  /\ spc' = "while"
  /\ UNCHANGED <<retryVars, progress, resumed, variant, dryRun, remote, run, target, mode,
                 isRunning, shouldStop, users, selectedUsers, idx, exitCode>>
  /\ pageWrites' = <<saveProgress(MisplacedPage(currentPage + 1, progress)), saveProgress(progress)>>
  /\ UNCHANGED <<signalled, terminal, errors, fired, taken>>

\* after the loop: the summary, finally isRunning = false, and main() exits with 0
Unfollow_Final ==
  /\ variant = "unfollow"
  /\ spc = "final"
  /\ isRunning' = FALSE
  /\ spc' = "exited"
  /\ exitCode' = "0"
  /\ UNCHANGED <<retryVars, progVars, variant, dryRun, remote, run, target, mode,
                 shouldStop, currentPage, hasMorePages, users, selectedUsers, idx>>
  /\ UNCHANGED <<signalled, terminal, errors, fired, taken, pageWrites>>

(***************************************************************************)
(* Both bots: the signal handlers, and the next run of the process         *)
(***************************************************************************)

\* SIGINT or SIGTERM arrives while the process waits: the handler calls stop(), which
\* sets shouldStop only if the bot is running
Stop ==
  /\ spc \in AwaitStates \ {"exited"}
  /\ signalled' = TRUE
  /\ shouldStop' = IF isRunning THEN TRUE ELSE shouldStop
  /\ UNCHANGED <<retryVars, progVars, variant, dryRun, remote, run, target, mode, spc, isRunning,
                 currentPage, hasMorePages, users, selectedUsers, idx, exitCode, terminal, errors, fired, taken, pageWrites>>

\* the process has exited, or is killed while it waits, and the bot is launched again
\* on the same progress file
NewRun(t) ==
  /\ spc \in AwaitStates
  /\ run < MaxRuns
  /\ run' = run + 1
  /\ target' = t
  /\ progress' = Null
  /\ resumed' = FALSE
  /\ spc' = "start"
  /\ isRunning' = FALSE
  /\ shouldStop' = FALSE
  /\ currentPage' = 1
  /\ hasMorePages' = TRUE
  /\ users' = <<>>
  /\ selectedUsers' = <<>>
  /\ idx' = 1
  /\ exitCode' = "none"
  /\ signalled' = FALSE
  /\ terminal' = FALSE
  /\ errors' = 0
  /\ fired' = {}
  /\ taken' = {}
  /\ pageWrites' = <<>>
  /\ dryRun' \in DryRunFlags(variant)
  /\ UNCHANGED <<retryVars, file, variant, remote, mode>>

Next ==
  \/ \E ok \in BOOLEAN, limit \in FollowLimits : Follow_Initialize(ok, limit)
  \/ Follow_WhileTest
  \/ \E r \in FetchResults : Follow_FetchReturns(r)
  \/ \E skip \in BOOLEAN : Follow_LoopStep(skip)
  \/ \E r \in BoolResults : Follow_IsFollowingReturns(r)
  \/ \E r \in BoolResults : Follow_FollowUserReturns(r)
  \/ Follow_PauseDone
  \/ Follow_PageDone
  \/ Follow_Final
  \/ \E ok \in BOOLEAN : Unfollow_Initialize(ok)
  \/ Unfollow_ApiStatusReturns
  \/ Unfollow_WhileTest
  \/ \E r \in FetchResults : Unfollow_FetchReturns(r)
  \/ Unfollow_RetryDelayDone
  \/ Unfollow_LoopStep
  \/ \E r \in BoolResults, skip \in BOOLEAN, think \in BOOLEAN :
       Unfollow_IsFollowingReturns(r, skip, think)
  \/ Unfollow_ThinkingDone
  \/ \E r \in BoolResults : Unfollow_UnfollowUserReturns(r)
  \/ Unfollow_PauseDone
  \/ Unfollow_PageDone
  \/ Unfollow_Final
  \/ Stop
  \/ \E t \in Targets : NewRun(t)

Spec == Init /\ [][Next]_vars

\* the steps the bot takes by itself: every continuation of an await. The event loop
\* runs a continuation once its promise has settled, and every request and every timer
\* of the bot settles, so these steps are taken as long as they are possible; signals
\* and kills come from outside and may never happen.
SessionStep ==
  \/ \E ok \in BOOLEAN, limit \in FollowLimits : Follow_Initialize(ok, limit)
  \/ Follow_WhileTest
  \/ \E r \in FetchResults : Follow_FetchReturns(r)
  \/ \E skip \in BOOLEAN : Follow_LoopStep(skip)
  \/ \E r \in BoolResults : Follow_IsFollowingReturns(r)
  \/ \E r \in BoolResults : Follow_FollowUserReturns(r)
  \/ Follow_PauseDone
  \/ Follow_PageDone
  \/ Follow_Final
  \/ \E ok \in BOOLEAN : Unfollow_Initialize(ok)
  \/ Unfollow_ApiStatusReturns
  \/ Unfollow_WhileTest
  \/ \E r \in FetchResults : Unfollow_FetchReturns(r)
  \/ Unfollow_RetryDelayDone
  \/ Unfollow_LoopStep
  \/ \E r \in BoolResults, skip \in BOOLEAN, think \in BOOLEAN :
       Unfollow_IsFollowingReturns(r, skip, think)
  \/ Unfollow_ThinkingDone
  \/ \E r \in BoolResults : Unfollow_UnfollowUserReturns(r)
  \/ Unfollow_PauseDone
  \/ Unfollow_PageDone
  \/ Unfollow_Final

SpecLive == Init /\ [][Next]_vars /\ WF_vars(SessionStep)

\* SpecLive when no request fails for ever: a fetchUsers that is sent again and again
\* returns its page in the end
SpecFair ==
  /\ Init
  /\ [][Next]_vars
  /\ WF_vars(SessionStep)
  /\ SF_vars(Unfollow_FetchReturns("users"))
  /\ SF_vars(Follow_FetchReturns("users"))

(***************************************************************************)
(* SpecClean: one run of the follow bot on a fresh progress file in which  *)
(* nothing goes wrong: initialize() succeeds, every fetch returns its      *)
(* page, no user is skipped at random, no user is followed already, every  *)
(* followUser succeeds, no signal arrives, and the session limit is above  *)
(* the number of users of the list.                                        *)
(***************************************************************************)
\* the users the target's list is made of
CleanPool == <<"u1", "u2", "u3", "u4", "u5", "u6", "u7", "u8", "u9", "u10">>
\* the lengths of the target's list
CleanLengths == {3, 8, 10}
\* the session limit generateSessionLimit draws: above every length of the list
CleanLimit == Num(Len(CleanPool) + 10)

\* GitHub's pagination: pages of perPage users, the last one with what is left
RECURSIVE Paginate(_, _)
Paginate(seq, perPage) ==
  IF seq = <<>> THEN <<>>
  ELSE IF Len(seq) <= perPage THEN <<seq>>
  ELSE <<SubSeq(seq, 1, perPage)>> \o Paginate(SubSeq(seq, perPage + 1, Len(seq)), perPage)

InitClean ==
  /\ ModulesLoaded
  /\ Constructed
  /\ config \in [retryAttempts : {3}, retryDelay : {1}, perPage : {CleanPerPage},
                 followPercentage : {50, 60}]
  /\ variant = "follow"
  /\ dryRun = FALSE
  /\ remote \in {Paginate(SubSeq(CleanPool, 1, n), CleanPerPage) : n \in CleanLengths}

CleanNext ==
  \/ Follow_Initialize(TRUE, CleanLimit)
  \/ Follow_WhileTest
  \/ Follow_FetchReturns("users")
  \/ Follow_LoopStep(FALSE)
  \/ Follow_IsFollowingReturns("false")
  \/ Follow_FollowUserReturns("true")
  \/ Follow_PauseDone
  \/ Follow_PageDone
  \/ Follow_Final

SpecClean == InitClean /\ [][CleanNext]_vars

(***************************************************************************)
(* SpecResume: one run of the follow bot that resumes a stored session.    *)
(* An earlier run on the same target has processed the first two pages,    *)
(* followed some of their users and saved its record at the page           *)
(* transition; this run takes the session up at the third page, with every *)
(* outcome of its requests and with signals.                               *)
(***************************************************************************)
\* the target's list: the users of the pages done, then those of the page to do
ResumePool == <<"p1", "p2", "p3", "p4", "p5", "p6", "p7", "p8", "u1", "u2", "u3", "u4">>
\* the numbers of users the earlier run has followed
StoredCounts == {6, 8}
\* the session limits of the stored record: one near, one far
StoredLimits == {Num(12), Num(30)}

\* the record the earlier run left in the file with its last updateCurrentPage
StoredRecord(n, limit) ==
  [targetUsername |-> "t1", mode |-> "followers",
   followedUsers |-> SubSeq(ResumePool, 1, n), currentPage |-> 3,
   totalFollowed |-> n, sessionLimit |-> limit]

InitResume ==
  /\ rateLimitInfo = [remaining |-> InitialRemaining, reset |-> 0, limit |-> InitialRemaining]
  /\ now = 0
  /\ pc = "idle"
  /\ operation = "none"
  /\ attempt = 0
  /\ lastError = "ok"
  /\ wakeAt = 0
  /\ outcome = NoOutcome
  /\ calls = 0
  /\ n429 = 0
  /\ waits = 0
  /\ refreshes = 0
  /\ progress = Null
  /\ file \in {StoredRecord(n, l) : n \in StoredCounts, l \in StoredLimits}
  /\ resumed = FALSE
  /\ Constructed
  /\ config \in [retryAttempts : {3}, retryDelay : {1}, perPage : {ResumePerPage},
                 followPercentage : {100}]
  /\ variant = "follow"
  /\ dryRun = FALSE
  /\ remote = Paginate(ResumePool, ResumePerPage)

ResumeNext ==
  \/ \E ok \in BOOLEAN, limit \in FollowLimits : Follow_Initialize(ok, limit)
  \/ Follow_WhileTest
  \/ \E r \in FetchResults : Follow_FetchReturns(r)
  \/ \E skip \in BOOLEAN : Follow_LoopStep(skip)
  \/ \E r \in BoolResults : Follow_IsFollowingReturns(r)
  \/ \E r \in BoolResults : Follow_FollowUserReturns(r)
  \/ Follow_PauseDone
  \/ Follow_PageDone
  \/ Follow_Final
  \/ Stop

SpecResume == InitResume /\ [][ResumeNext]_vars

(***************************************************************************)
(* SpecConfig: config.js as a library. loadConfig reads config.json and    *)
(* generateSessionLimit draws the limit that initialize() hands on to      *)
(* initializeProgress. Whole numbers (delays, counts, limits) are in their *)
(* own unit and fractions (chances, followPercentage) in hundredths; a     *)
(* number of config.json is written in hundredths.                         *)
(***************************************************************************)
\* the values of config.json: a key that is absent, a string that is no number, null,
\* and a number, in hundredths
Absent == [t |-> "absent", v |-> 0]
RawText == [t |-> "text", v |-> 0]
RawNull == [t |-> "null", v |-> 0]
RawNum(h) == [t |-> "number", v |-> h]
RawOfInt(n) == RawNum(100 * n)

\* the numbers written in config.json: -5, -3, 0, 0.5, 4, 200, 700
RawNumbers == {-500, -300, 0, 50, 400, 20000, 70000}
RawPresent == {RawText, RawNull} \cup {RawNum(h) : h \in RawNumbers}

\* the results of parseInt and parseFloat
NaN == [nan |-> TRUE, v |-> 0]
Number(n) == [nan |-> FALSE, v |-> n]

\* the digits before the decimal point
Trunc(h) == IF h >= 0 THEN h \div 100 ELSE -((-h) \div 100)

\* parseInt(x), a whole number; parseFloat(x), in hundredths
parseInt(raw) == IF raw.t = "number" THEN Number(Trunc(raw.v)) ELSE NaN
parseFloat(raw) == IF raw.t = "number" THEN Number(raw.v) ELSE NaN

\* x || d for a parsed x: NaN and 0 are falsy
OrDefault(x, d) == IF x.nan \/ x.v = 0 THEN d ELSE x.v

\* x || cur for a value of config.json: undefined, null and 0 are falsy
JsOr(raw, cur) == IF raw.t = "text" \/ (raw.t = "number" /\ raw.v # 0) THEN raw ELSE cur

Min(a, b) == IF a <= b THEN a ELSE b

\* config.js:21  maxPerSession: [999999, 999999]
Unlimited == 999999

DEFAULT_CONFIG ==
  [minDelay |-> 1000, maxDelay |-> 3000, skipChance |-> 5, longPauseChance |-> 5,
   followPercentage |-> 100, retryAttempts |-> 3, perPage |-> 100,
   maxPerSession |-> <<Unlimited, Unlimited>>]

\* { ...DEFAULT_CONFIG }, as validateConfig receives it
RawDefaults ==
  [minDelay |-> RawOfInt(DEFAULT_CONFIG.minDelay),
   maxDelay |-> RawOfInt(DEFAULT_CONFIG.maxDelay),
   skipChance |-> RawNum(DEFAULT_CONFIG.skipChance),
   longPauseChance |-> RawNum(DEFAULT_CONFIG.longPauseChance),
   followPercentage |-> RawNum(DEFAULT_CONFIG.followPercentage),
   retryAttempts |-> RawOfInt(DEFAULT_CONFIG.retryAttempts),
   perPage |-> RawOfInt(DEFAULT_CONFIG.perPage),
   maxPerSession |-> [array |-> TRUE, items |-> <<RawOfInt(Unlimited), RawOfInt(Unlimited)>>]]

\* validateConfig, lines 219-226: the pair made of a two-element maxPerSession
validateSessionLimits(min, max) ==
  <<Max(1, OrDefault(parseInt(min), DEFAULT_CONFIG.maxPerSession[1])),
    Max(OrDefault(parseInt(min), DEFAULT_CONFIG.maxPerSession[1]),
        OrDefault(parseInt(max), DEFAULT_CONFIG.maxPerSession[2]))>>

\* a validateConfig that does not raise maxDelay to minDelay
validateConfig_NoOrder(c) ==
  [minDelay |-> Max(500, OrDefault(parseInt(c.minDelay), DEFAULT_CONFIG.minDelay)),
   maxDelay |-> OrDefault(parseInt(c.maxDelay), DEFAULT_CONFIG.maxDelay),
   skipChance |-> Max(0, Min(100, OrDefault(parseFloat(c.skipChance), DEFAULT_CONFIG.skipChance))),
   longPauseChance |->
     Max(0, Min(100, OrDefault(parseFloat(c.longPauseChance), DEFAULT_CONFIG.longPauseChance))),
   followPercentage |->
     Max(10, Min(100, OrDefault(parseFloat(c.followPercentage), DEFAULT_CONFIG.followPercentage))),
   maxPerSession |->
     IF c.maxPerSession.array /\ Len(c.maxPerSession.items) >= 2
       THEN validateSessionLimits(c.maxPerSession.items[1], c.maxPerSession.items[2])
       ELSE DEFAULT_CONFIG.maxPerSession,
   retryAttempts |->
     Max(1, Min(10, OrDefault(parseInt(c.retryAttempts), DEFAULT_CONFIG.retryAttempts))),
   perPage |-> Max(1, Min(100, OrDefault(parseInt(c.perPage), DEFAULT_CONFIG.perPage)))]

\* validateConfig(config), for the fields the bots read
validateConfig(c) ==
  LET minDelay == Max(500, OrDefault(parseInt(c.minDelay), DEFAULT_CONFIG.minDelay))
  IN [minDelay |-> minDelay,
      maxDelay |-> Max(minDelay, OrDefault(parseInt(c.maxDelay), DEFAULT_CONFIG.maxDelay)),
      skipChance |->
        Max(0, Min(100, OrDefault(parseFloat(c.skipChance), DEFAULT_CONFIG.skipChance))),
      longPauseChance |->
        Max(0, Min(100, OrDefault(parseFloat(c.longPauseChance),
                                  DEFAULT_CONFIG.longPauseChance))),
      followPercentage |->
        Max(10, Min(100, OrDefault(parseFloat(c.followPercentage),
                                   DEFAULT_CONFIG.followPercentage))),
      maxPerSession |->
        IF c.maxPerSession.array /\ Len(c.maxPerSession.items) >= 2
          THEN validateSessionLimits(c.maxPerSession.items[1], c.maxPerSession.items[2])
          ELSE DEFAULT_CONFIG.maxPerSession,
      retryAttempts |->
        Max(1, Min(10, OrDefault(parseInt(c.retryAttempts), DEFAULT_CONFIG.retryAttempts))),
      perPage |-> Max(1, Min(100, OrDefault(parseInt(c.perPage), DEFAULT_CONFIG.perPage)))]

\* the states of config.json: no file, a file that JSON.parse rejects, an object in
\* the old format (flat) and one in the new format (defaults and users sections)
FileKinds == {"missing", "unparsable", "old", "new"}

\* the keys of the old format; maxPerSession is written by its two elements
OldKeys ==
  {"minDelay", "maxDelay", "skipChance", "longPauseChance", "followPercentage",
   "retryAttempts", "perPage", "maxPerSession[0]", "maxPerSession[1]"}

\* the keys of the new format that loadConfig reads, under defaults and under the user
NewKeys ==
  {"delays.min", "delays.max", "session.minUnfollows", "session.maxUnfollows",
   "pagination.perPage", "user.delays.min", "user.delays.max",
   "user.session.minUnfollows", "user.session.maxUnfollows"}

KeysOf(kind) == IF kind = "old" THEN OldKeys ELSE IF kind = "new" THEN NewKeys ELSE {}

\* the sets of keys written in a file of the model: at most MaxKeys of them
KeySets(kind) == {S \in SUBSET KeysOf(kind) : Cardinality(S) <= MaxKeys}

\* the file in which the keys of K have the values g, and no other key is written
ConfigFile(kind, K, g) == [k \in KeysOf(kind) |-> IF k \in K THEN g[k] ELSE Absent]

\* the --user arguments: none, and a user of the users section
UserArgs == {"none", "user1"}

\* { ...DEFAULT_CONFIG, ...configFile }: maxPerSession is an array of the elements
\* written, or a number when only "maxPerSession[1]" is written
OldFormat(f) ==
  LET Spread(k) == IF f[k] = Absent THEN RawDefaults[k] ELSE f[k]
      a == f["maxPerSession[0]"]
      b == f["maxPerSession[1]"]
  IN [minDelay |-> Spread("minDelay"),
      maxDelay |-> Spread("maxDelay"),
      skipChance |-> Spread("skipChance"),
      longPauseChance |-> Spread("longPauseChance"),
      followPercentage |-> Spread("followPercentage"),
      retryAttempts |-> Spread("retryAttempts"),
      perPage |-> Spread("perPage"),
      maxPerSession |->
        IF a = Absent /\ b = Absent THEN RawDefaults.maxPerSession
        ELSE IF a # Absent /\ b # Absent THEN [array |-> TRUE, items |-> <<a, b>>]
        ELSE IF a # Absent THEN [array |-> TRUE, items |-> <<a>>]
        ELSE [array |-> FALSE, items |-> <<>>]]

\* loadConfig, lines 82-141: a section is present when one of its keys is written
NewFormat(f, user) ==
  LET Section(keys) == \E k \in keys : f[k] # Absent
      Pair(a, b) ==
        [array |-> TRUE, items |-> <<JsOr(a, RawOfInt(Unlimited)), JsOr(b, RawOfInt(Unlimited))>>]
      d == [RawDefaults EXCEPT
              !.minDelay = JsOr(f["delays.min"], @),
              !.maxDelay = JsOr(f["delays.max"], @),
              !.maxPerSession =
                 IF Section({"session.minUnfollows", "session.maxUnfollows"})
                   THEN Pair(f["session.minUnfollows"], f["session.maxUnfollows"])
                   ELSE @,
              !.perPage = JsOr(f["pagination.perPage"], @)]
      hasUser == /\ user # "none"
                 /\ Section({"user.delays.min", "user.delays.max",
                             "user.session.minUnfollows", "user.session.maxUnfollows"})
  IN IF hasUser
       THEN [d EXCEPT
               !.minDelay = JsOr(f["user.delays.min"], @),
               !.maxDelay = JsOr(f["user.delays.max"], @),
               !.maxPerSession =
                  IF Section({"user.session.minUnfollows", "user.session.maxUnfollows"})
                    THEN Pair(f["user.session.minUnfollows"], f["user.session.maxUnfollows"])
                    ELSE @]
       ELSE d

\* loadConfig(user): the defaults for a missing file and for any error raised
loadConfig(kind, f, user) ==
  IF kind \in {"missing", "unparsable"} THEN DEFAULT_CONFIG
  ELSE IF kind = "new" THEN validateConfig(NewFormat(f, user))
  ELSE validateConfig(OldFormat(f))

\* generateSessionLimit(config): Math.random() is r / RandSteps
generateSessionLimit(cfg, r) ==
  LET min == cfg.maxPerSession[1]
      max == cfg.maxPerSession[2]
  IN ((r * (max - min + 1)) \div RandSteps) + min

InitConfig ==
  /\ ModulesLoaded
  /\ Constructed
  /\ config = Null
  /\ variant = "follow"
  /\ dryRun = FALSE
  /\ remote = <<>>

\* this.config = loadConfig(user)
LibLoadConfig(kind, f, user) ==
  /\ spc = "start"
  /\ config = Null
  /\ config' = loadConfig(kind, f, user)
  /\ spc' = "configured"
  /\ UNCHANGED <<rateLimitInfo, now, pc, operation, attempt, lastError, wakeAt, outcome,
                 calls, n429, waits, refreshes>>
  /\ UNCHANGED <<progVars, variant, dryRun, remote, run, target, mode, isRunning, shouldStop,
                 currentPage, hasMorePages, users, selectedUsers, idx, exitCode>>
  /\ UNCHANGED <<signalled, terminal, errors, fired, taken, pageWrites>>

\* const sessionLimit = generateSessionLimit(this.config), handed to initializeProgress
LibGenerateSessionLimit(r) ==
  /\ spc = "configured"
  /\ LET init == initializeProgress(file, target, mode, Num(generateSessionLimit(config, r)))
     IN /\ progress' = init.progress
        /\ file' = init.file
        /\ resumed' = init.resumed
  /\ spc' = "limited"
  /\ UNCHANGED <<retryVars, variant, dryRun, remote, run, target, mode, isRunning, shouldStop,
                 currentPage, hasMorePages, users, selectedUsers, idx, exitCode>>
  /\ UNCHANGED <<signalled, terminal, errors, fired, taken, pageWrites>>

\* loadConfig is called once, before anything else of initialize()
ConfigNext ==
  \/ /\ config = Null
     /\ \E kind \in FileKinds, user \in UserArgs :
          \E K \in KeySets(kind) :
            \E g \in [K -> RawPresent] : LibLoadConfig(kind, ConfigFile(kind, K, g), user)
  \/ \E r \in 0 .. (RandSteps - 1) : LibGenerateSessionLimit(r)

SpecConfig == InitConfig /\ [][ConfigNext]_vars

(***************************************************************************)
(* Claims about github.js, checked under SpecRetry                         *)
(***************************************************************************)

\* C1 (as claimed): checkRateLimit returns to its caller only when the tracked
\* remaining is above the buffer of 10. pc = "call" is the state in which
\* checkRateLimit has just returned and apiCall is about to be invoked.
C1_RateSafety == pc = "call" => rateLimitInfo.remaining > RateBuffer

\* C2: when every attempt fails with an error that is neither terminal nor a rate
\* limit, executeWithRetry has invoked the operation exactly retryAttempts times when
\* it throws, and what it throws is the last error.
C2_RetryBound ==
  (pc = "thrown" /\ n429 = 0 /\ lastError \notin TerminalStatus)
    => /\ calls = config.retryAttempts
       /\ outcome.kind = "thrown"
       /\ outcome.status = lastError

\* every attempt of a three-attempt call has failed with a transient error
C2_Witness ==
  /\ pc = "thrown"
  /\ n429 = 0
  /\ lastError \in {"500", "none"}
  /\ config.retryAttempts = 3
  /\ calls = 3

\* C3: once the operation has failed with status 401, 403 or 404, executeWithRetry
\* has ended by throwing that error: it made one invocation per attempt begun (exactly
\* one when the failure is on the first attempt) and no timer is pending after it.
C3_TerminalImmediate ==
  lastError \in TerminalStatus
    => /\ pc = "thrown"
       /\ outcome.kind = "thrown"
       /\ outcome.status = lastError
       /\ calls = attempt + 1
       /\ (attempt = 0 => calls = 1)
       /\ wakeAt = 0

\* a terminal failure on the first attempt
C3_Witness ==
  /\ lastError \in TerminalStatus
  /\ pc = "thrown"
  /\ attempt = 0
  /\ calls = 1
  /\ waits = 0

\* C4 (as claimed): a 429 failure does not consume the attempt budget: at the top of
\* each iteration the attempts used are the invocations made less the 429 failures.
C4_BudgetKept == pc = "check" => attempt = calls - n429

\* C5 (as claimed): when only 429 failures occur, executeWithRetry never raises and the
\* operation around it neither throws nor reports failure.
C5_NeverSurfaced ==
  (calls > 0 /\ n429 = calls)
    => /\ outcome.kind # "thrown"
       /\ outcome.result \notin {"throw", "false"}

(***************************************************************************)
(* Claims about the sessions and progress.js                               *)
(***************************************************************************)
IsPrefix(a, b) == Len(a) <= Len(b) /\ SubSeq(b, 1, Len(a)) = a

\* C6: no action call (followUser, unfollowUser) is in flight for an identity that is
\* in the processed list of the session's record; in particular not in a session
\* resumed from a stored record that replays the pages. Checked under Spec.
C6_IdempotentResume ==
  spc = "act" => selectedUsers[idx] \notin RangeOf(progress.followedUsers)

\* a resumed session has fetched a page that holds an identity of its processed list,
\* and its action call is in flight for another identity of that page
C6_Witness ==
  /\ resumed
  /\ spc = "act"
  /\ \E u \in RangeOf(users) : u \in RangeOf(progress.followedUsers)

\* C7 (as claimed): when the unfollow bot is run again with the same target and mode on
\* a progress file that records unfollows, the new run starts with the stored processed
\* list and page. Checked under Spec.
C7_UnfollowResumes ==
  [][(/\ variant = "unfollow"
      /\ spc = "start"
      /\ spc' = "apiStatus"
      /\ file # NoFile
      /\ file.targetUsername = target
      /\ file.mode = mode
      /\ file.followedUsers # <<>>)
       => /\ progress'.followedUsers = file.followedUsers
          /\ progress'.currentPage = file.currentPage]_vars

\* C8: initializeProgress(target, mode, limit) returns the stored record, and leaves the
\* file alone, exactly when there is a stored record whose target and mode are the
\* requested ones and whose totalFollowed is below its sessionLimit; otherwise it
\* returns and writes a fresh record: page 1, zero followed, no processed user.
\* Checked under SpecProgress.
C8_LoadSemantics ==
  [][\A t \in Targets, m \in Modes, l \in SessionLimits :
       LibInitializeProgress(t, m, l) =>
         LET resumable == /\ file # NoFile
                          /\ file.targetUsername = t
                          /\ file.mode = m
                          /\ file.sessionLimit.type = "number"
                          /\ file.totalFollowed < file.sessionLimit.val
             fresh == [targetUsername |-> t, mode |-> m, followedUsers |-> <<>>,
                       currentPage |-> 1, totalFollowed |-> 0, sessionLimit |-> l]
         IN IF resumable THEN progress' = file /\ file' = file
                         ELSE progress' = fresh /\ file' = fresh]_vars

\* initializeProgress has returned a stored record that holds processed users
C8_Witness ==
  /\ resumed
  /\ progress # Null
  /\ progress = file
  /\ progress.totalFollowed > 0
  /\ progress.currentPage > 1

\* C9: within one session the record's currentPage never decreases and its processed
\* list only grows at its end. Checked under Spec.
C9_Monotonic ==
  [][(progress # Null /\ progress' # Null)
       => /\ progress'.currentPage >= progress.currentPage
          /\ IsPrefix(progress.followedUsers, progress'.followedUsers)]_vars

\* a session has recorded two users and advanced its page
C9_Witness ==
  /\ progress # Null
  /\ Len(progress.followedUsers) >= 2
  /\ progress.currentPage > 1

\* C10 (as claimed): addFollowedUser is idempotent per identity: no identity has two
\* entries in the processed list, and totalFollowed counts each identity once.
\* Checked under SpecProgress.
C10_Idempotent ==
  progress # Null
    => /\ Cardinality(RangeOf(progress.followedUsers)) = Len(progress.followedUsers)
       /\ progress.totalFollowed = Cardinality(RangeOf(progress.followedUsers))

\* C11: in every state of a session, totalFollowed is the number of entries of the
\* processed list; a successful action (followUser or unfollowUser returning true)
\* appends exactly one entry, the user acted on, and adds one to the counter; no other
\* step of the session changes the list or the counter. Checked under Spec.
C11_CounterConsistency ==
  /\ [](progress # Null => progress.totalFollowed = Len(progress.followedUsers))
  /\ [][(progress # Null /\ progress' # Null) =>
          IF spc = "act" /\ spc' = "pause"
            THEN /\ progress'.followedUsers = Append(progress.followedUsers, selectedUsers[idx])
                 /\ progress'.totalFollowed = progress.totalFollowed + 1
            ELSE /\ progress'.followedUsers = progress.followedUsers
                 /\ progress'.totalFollowed = progress.totalFollowed]_vars

\* a session that started from a fresh record has just recorded its second success
C11_Witness ==
  /\ progress # Null
  /\ ~resumed
  /\ spc = "pause"
  /\ progress.totalFollowed = 2
  /\ Len(progress.followedUsers) = 2

\* C12 (as claimed): when the users of a page have been selected, in either bot, the
\* selection has exactly floor(|eligible| * fraction) elements, where eligible is the
\* page without the users of the processed list; every selected user is eligible and
\* none is selected twice. spc = "loop" with idx = 1 is the state just after the
\* selection. Checked under Spec.
C12_SamplingBound ==
  (spc = "loop" /\ idx = 1) =>
    LET eligible == {u \in RangeOf(users) : u \notin RangeOf(progress.followedUsers)}
    IN /\ Len(selectedUsers) = (Cardinality(eligible) * config.followPercentage) \div 100
       /\ RangeOf(selectedUsers) \subseteq eligible
       /\ Cardinality(RangeOf(selectedUsers)) = Len(selectedUsers)

\* the sum over the pages of floor(size * percentage / 100)
RECURSIVE SumOfFloors(_, _)
SumOfFloors(pages, percentage) ==
  IF pages = <<>> THEN 0
  ELSE (Len(Head(pages)) * percentage) \div 100 + SumOfFloors(Tail(pages), percentage)

C14_FollowingVerification ==
  [][variant = "unfollow" =>
       /\ (spc' = "act" /\ spc # "act") => spc \in {"isFollowing", "thinking"}
       /\ (spc' = "thinking" /\ spc # "thinking") => spc = "isFollowing"
       /\ (spc \in {"isFollowing", "thinking"} /\ spc' \in {"thinking", "act"})
            => (idx' = idx /\ selectedUsers' = selectedUsers)
       /\ \A r \in BoolResults, skip \in BOOLEAN, think \in BOOLEAN :
            Unfollow_IsFollowingReturns(r, skip, think) =>
              /\ spc' \in {"thinking", "act"} => r = "true"
              /\ r = "false" => /\ spc' = "loop"
                                /\ idx' = idx + 1
                                /\ progress' = progress
                                /\ file' = file]_vars

\* the unfollow bot has called unfollowUser for the second user of its selection
C14_Witness ==
  /\ variant = "unfollow"
  /\ spc = "act"
  /\ idx = 2

\* README.md:119  "Rate Limit Respect: Stops when < 100 requests remaining"
SoftBuffer == 100

\* C15 (as claimed): no API call (page fetch, relationship check or action, all of
\* which go through executeWithRetry) is started in a state where the tracked
\* remaining is below the soft buffer of 100. Checked under SpecRetry.
C15_SoftBuffer == pc = "call" => rateLimitInfo.remaining >= SoftBuffer

\* C16: once shouldStop is set on a running session (stop() was called), no page fetch
\* is started and no user other than the one being handled is taken up; the calls still
\* made are for that user, a follow or unfollow in flight that succeeds is recorded;
\* and the run ends, unless the process is killed, with the progress in the file.
\* Checked under SpecLive.
C16_CooperativeCancel ==
  /\ [][(shouldStop /\ isRunning) =>
          /\ ~(spc # "fetch" /\ spc' = "fetch")
          /\ ~(spc = "loop" /\ spc' = "isFollowing")
          /\ (spc' \in {"isFollowing", "thinking", "act"} /\ spc' # spc)
               => /\ spc \in {"isFollowing", "thinking"}
                  /\ idx' = idx
                  /\ selectedUsers' = selectedUsers
          /\ (spc = "act" /\ spc' = "pause")
               => progress'.followedUsers = Append(progress.followedUsers, selectedUsers[idx])
       ]_vars
  /\ \A k \in 1 .. MaxRuns :
       (shouldStop /\ isRunning /\ run = k)
         ~> (run # k \/ (spc = "exited" /\ file = progress))

\* a session that was signalled while it was running has recorded users and has ended
C16_Witness ==
  /\ signalled
  /\ shouldStop
  /\ ~terminal
  /\ spc = "exited"
  /\ exitCode = "0"
  /\ progress # Null
  /\ progress.followedUsers # <<>>
  /\ file = progress

\* C17 (as claimed): whenever a SIGINT or SIGTERM has been delivered to a run, also
\* while it was initializing, the run starts no page fetch and takes up no user from
\* then on, and it ends (unless the process is killed). Checked under SpecLive.
C17_StopFromAnyState ==
  /\ [][signalled =>
          /\ ~(spc # "fetch" /\ spc' = "fetch")
          /\ ~(spc = "loop" /\ spc' = "isFollowing")]_vars
  /\ \A k \in 1 .. MaxRuns :
       (signalled /\ run = k) ~> (run # k \/ spc = "exited")

\* C18 (as claimed): when the process has exited, its status is non-zero exactly when a
\* terminal failure (401, 403, 404) occurred in the run, during initialization or in the
\* middle of the session; it is 0 when the session completed or was stopped by a signal.
\* Checked under Spec.
C18_ExitStatus ==
  spc = "exited" =>
    /\ terminal => exitCode = "1"
    /\ ~terminal => exitCode = "0"

\* C19 (as claimed): when fetchUsers ends with a terminal failure (401/403, or 404 for
\* a missing or private target), in either bot, the session leaves its loop at once,
\* and from there it only exits: no page is fetched again, no user is taken up.
\* Checked under Spec.
C19_TerminalFetchAborts ==
  [][/\ \A r \in {"throwAuth", "throwNotFound"} :
          (Follow_FetchReturns(r) \/ Unfollow_FetchReturns(r)) => spc' = "final"
     /\ spc = "final" => spc' = "exited"]_vars

\* C20 (as claimed): a run does not go on fetching pages forever: whenever a page fetch
\* is in flight, the run later ends, or a terminal failure has occurred in it (C19), or
\* the process is killed; in particular the bot is not forever coming back to the delay
\* that follows a failed fetch. Checked under SpecLive.
C20_PageFailureEscalates ==
  /\ \A k \in 1 .. MaxRuns :
       (run = k /\ spc = "fetch") ~> (run # k \/ terminal \/ spc = "exited")
  /\ <>[](spc # "retryDelay")

\* the statuses with which an action call can exhaust its retries: 5xx, a network error
\* without a status, and 429
TransientStatus == ErrorStatus \ TerminalStatus

\* C21 (as claimed): a followUser or unfollowUser call that exhausts its retries with
\* transient errors returns false to the session, and in either bot the session then
\* leaves the progress record as it is (the user is not added to the processed list),
\* adds one to an error counter, and goes on with the next selected user without
\* setting shouldStop. Checked under Spec.
C21_TransientPerIdentity ==
  /\ \A op \in {"followUser", "unfollowUser"}, s \in TransientStatus :
       OperationResult(op, "thrown", s) = "false"
  /\ [][Follow_FollowUserReturns("false") \/ Unfollow_UnfollowUserReturns("false") =>
          /\ progress' = progress
          /\ errors' = errors + 1
          /\ shouldStop' = shouldStop
          /\ spc' = "loop"
          /\ idx' = idx + 1]_vars

\* C22 (as claimed): in a run with the --dry-run option no follow or unfollow call is
\* ever made, and the run still walks the list: after a successful initialization it
\* goes on to the session (its API status check and then its page fetches) exactly as
\* a live run does. Checked under Spec.
C22_DryRunWalks ==
  /\ [](dryRun => spc # "act")
  /\ [][dryRun /\ Unfollow_Initialize(TRUE) => spc' = "apiStatus"]_vars

(***************************************************************************)
(* Further claims about github.js, checked under SpecRetry                 *)
(***************************************************************************)

\* C23: when checkRateLimit is entered with remaining <= 10 and a reset time in the
\* future, it does not return at once but sets its timer; while the timer is pending
\* the tracker is not touched; the timer fires only after that reset time; and from
\* then on, through the status request up to the return to the caller, the clock is
\* past that reset time.
C23_ReleaseAfterReset ==
  /\ [](pc = "refresh" => now > rateLimitInfo.reset)
  /\ [][/\ (pc = "check" /\ rateLimitInfo.remaining <= RateBuffer
                         /\ rateLimitInfo.reset > now)
             => (pc' = "sleeping" /\ rateLimitInfo' = rateLimitInfo /\ now' = now)
        /\ pc = "sleeping"
             => /\ rateLimitInfo' = rateLimitInfo
                /\ pc' \in {"sleeping", "refresh"}
                /\ pc' = "refresh" => now' > rateLimitInfo.reset
        /\ (pc = "refresh" /\ pc' # "refresh")
             => (pc' = "call" /\ now' > rateLimitInfo.reset)]_vars

\* checkRateLimit was entered with 10 or fewer remaining and a reset at least two
\* seconds ahead, and has just returned to executeWithRetry, one second after the reset
C23_Witness ==
  /\ pc = "call"
  /\ calls = 0
  /\ refreshes = 1
  /\ rateLimitInfo.remaining <= RateBuffer
  /\ rateLimitInfo.reset >= 2
  /\ now = rateLimitInfo.reset + MarginTicks

\* C24: checkRateLimit sends one request to the rate-limit status endpoint each time
\* its timer has fired, before it returns to executeWithRetry, and whether that
\* request answers or fails it sends no second one; when it returns without having
\* slept it sends none. refreshes counts these requests within one executeWithRetry.
C24_OneRecheck ==
  [][/\ (pc = "sleeping" /\ pc' # "sleeping")
          => (pc' = "refresh" /\ refreshes' = refreshes + 1)
     /\ (pc = "refresh" /\ pc' # "refresh")
          => (pc' = "call" /\ refreshes' = refreshes)
     /\ (pc = "check" /\ pc' # "check")
          => (pc' \in {"sleeping", "call"} /\ refreshes' = refreshes)
     /\ (pc \notin {"sleeping", "idle", "returned", "thrown"})
          => refreshes' = refreshes]_vars

\* a second attempt is about to call after both its checkRateLimit and that of the
\* first attempt have slept: two sleeps, two status requests
C24_Witness ==
  /\ pc = "call"
  /\ attempt = 1
  /\ calls = 1
  /\ refreshes = 2

(***************************************************************************)
(* Further claims about the sessions, checked under Spec                   *)
(***************************************************************************)

\* C25 (as claimed): in both bots, every page transition of a session (after the users
\* of a page have been processed, and in the follow bot also after a failed fetch that
\* is skipped) adds one to the page number, and the currentPage of the progress file
\* after it is that incremented number, the page the session fetches next.
C25_PageAdvancePersisted ==
  [][(Follow_PageDone \/ Unfollow_PageDone \/ Follow_FetchReturns("throwOther"))
       => /\ currentPage' = currentPage + 1
          /\ file'.currentPage = currentPage']_vars

C27_FinalStatePersisted ==
  /\ [](spc = "exited" /\ progress # Null => file = progress)
  /\ [][Follow_Final => file' = progress /\ progress' = progress]_vars

\* a session that had recorded a success was stopped by a signal and has ended
C27_Witness ==
  /\ spc = "exited"
  /\ progress # Null
  /\ signalled
  /\ shouldStop
  /\ progress.totalFollowed >= 1
  /\ file.followedUsers = progress.followedUsers

\* the session is on its way out: shouldStop is set and the loop over the selected
\* users has been left
Draining == shouldStop /\ spc \in {"pageDone", "while", "final", "exited"}

\* C28: when isFollowing, followUser or unfollowUser ends with the Error of a 401 or
\* 403, in either bot, the session sets shouldStop and leaves the loop over the
\* selected users; from then on the run stays on its way out: it takes up no further
\* user, issues no action call and fetches no further page. Checked under Spec.
C28_TerminalActDrains ==
  [][/\ (\/ Follow_IsFollowingReturns("throw")
         \/ Follow_FollowUserReturns("throw")
         \/ \E skip, think \in BOOLEAN : Unfollow_IsFollowingReturns("throw", skip, think)
         \/ Unfollow_UnfollowUserReturns("throw"))
          => (Draining' /\ progress' = progress)
     /\ (Draining /\ run' = run)
          => (Draining' /\ spc' \notin {"fetch", "isFollowing", "thinking", "act"})]_vars

\* an unfollow session whose request failed with 401 or 403 while a selected user and
\* further pages were still to come has ended without having been signalled
C28_Witness ==
  /\ variant = "unfollow"
  /\ spc = "exited"
  /\ terminal
  /\ shouldStop
  /\ ~signalled
  /\ idx < Len(selectedUsers)
  /\ hasMorePages
  /\ currentPage <= Len(remote)

(***************************************************************************)
(* Further claims about executeWithRetry, checked under SpecRetry          *)
(***************************************************************************)

\* C29: within executeWithRetry the wrapped operation is invoked only when a
\* checkRateLimit has just completed, on the first attempt and on every retry: the
\* call is reached only from the check or from the status request that ends it, every
\* iteration of the loop starts with the check, and each invocation leaves the call,
\* so that no two invocations follow each other without a check in between.
C29_CheckBeforeCall ==
  [][/\ (pc' = "call" /\ pc # "call") => pc \in {"check", "refresh"}
     /\ calls' = calls + 1 => (pc = "call" /\ pc' \in {"returned", "thrown", "waiting", "check"})
     /\ (pc = "call" /\ pc' # "call") => calls' = calls + 1
     /\ (pc \in {"idle", "waiting"} /\ pc' # pc) => pc' \in {"check", "thrown"}
     /\ (pc = "refresh" /\ pc' # "refresh") => pc' = "call"]_vars

\* the third invocation of a call is about to be made, after three capacity checks
\* of which the last one slept
C29_Witness ==
  /\ pc = "call"
  /\ attempt = 2
  /\ calls = 2
  /\ refreshes >= 1
  /\ now = rateLimitInfo.reset + MarginTicks

\* C30 (as claimed): each completion of the wrapped operation whose response carries
\* rate-limit headers updates the tracker from them before the next capacity check,
\* when the call succeeded and also when it failed with a status such as 429 (whose
\* response carries x-ratelimit-reset); a field whose header is absent keeps its value.
C30_ObservedOnCompletion ==
  [][/\ \A h \in Headers :
          ApiCallSucceeds(h) =>
            /\ rateLimitInfo'.remaining =
                 IF h.remaining # NoHeader THEN HeaderValue(h.remaining)
                                           ELSE rateLimitInfo.remaining
            /\ rateLimitInfo'.reset =
                 IF h.reset # NoHeader THEN HeaderValue(h.reset) ELSE rateLimitInfo.reset
            /\ rateLimitInfo'.limit =
                 IF h.limit # NoHeader THEN HeaderValue(h.limit) ELSE rateLimitInfo.limit
     /\ \A r \in HeaderOf(0 .. MaxNow - 1) :
          ApiCallRateLimited(r) =>
            rateLimitInfo'.reset =
              IF r # NoHeader THEN HeaderValue(r) ELSE rateLimitInfo.reset]_vars

(***************************************************************************)
(* Claims about initialization, limits and termination                     *)
(***************************************************************************)

\* C31: when initialize() fails on the token, the authentication or the validation of
\* the target, in either bot, the run ends with status 1 at once: the progress record
\* has not been loaded, the progress file is what it was (none is created, an existing
\* one is not overwritten), and the run fetches no page and calls no action before or
\* after. Checked under Spec.
C31_InitFailsFast ==
  /\ [](spc = "exited" /\ exitCode = "1" => progress = Null)
  /\ [][/\ ((\E l \in FollowLimits : Follow_Initialize(FALSE, l)) \/ Unfollow_Initialize(FALSE))
             => /\ file' = file
                /\ progress' = Null
                /\ spc' = "exited"
                /\ exitCode' = "1"
        /\ (spc \in {"start", "exited"} /\ run' = run)
             => spc' \notin {"fetch", "isFollowing", "thinking", "act"}]_vars

\* the second run on a progress file that an earlier run has written fails in its
\* initialization
C31_Witness ==
  /\ run = 2
  /\ spc = "exited"
  /\ exitCode = "1"
  /\ progress = Null
  /\ file # NoFile
  /\ file.totalFollowed >= 1

\* C32: after a successful unfollow at most one of the mini, medium and long breaks is
\* taken, and it is the one of highest priority among those that fired (long over
\* medium over mini), whatever subset of the three tiers fired
C32_BreaksDoNotCompound ==
  /\ Cardinality(taken) <= 1
  /\ taken \subseteq fired
  /\ (fired # {} => taken # {})
  /\ ("long" \in fired => taken = {"long"})
  /\ ("medium" \in fired /\ "long" \notin fired => taken = {"medium"})
  /\ (fired # {} => variant = "unfollow" /\ spc = "pause")

C32_Witness ==
  /\ variant = "unfollow"
  /\ spc = "pause"
  /\ fired = BreakTiers
  /\ taken = {"long"}

(***************************************************************************)
(* Claims about config.js, checked under SpecConfig                        *)
(***************************************************************************)
\* C33: whatever config.json holds (no file, a file that does not parse, values out
\* of range or not numeric), loadConfig returns a configuration with retryAttempts
\* in 1..10, perPage in 1..100, skipChance and longPauseChance in [0, 1],
\* followPercentage in [0.1, 1], minDelay >= 500 and maxDelay >= minDelay
C33_ConfigNeverFatal ==
  spc \in {"configured", "limited"} =>
    /\ config.retryAttempts \in 1 .. 10
    /\ config.perPage \in 1 .. 100
    /\ config.skipChance \in 0 .. 100
    /\ config.longPauseChance \in 0 .. 100
    /\ config.followPercentage \in 10 .. 100
    /\ config.minDelay >= 500
    /\ config.maxDelay >= config.minDelay

C33_Witness ==
  /\ spc = "configured"
  /\ config.retryAttempts = 10
  /\ config.minDelay = 500
  /\ config.maxDelay = DEFAULT_CONFIG.maxDelay

\* C39: the maxPerSession pair that validateConfig returns satisfies 1 <= min <= max,
\* and generateSessionLimit returns a whole number of min .. max
C39_SessionLimitRange ==
  spc \in {"configured", "limited"} =>
    /\ 1 <= config.maxPerSession[1]
    /\ config.maxPerSession[1] <= config.maxPerSession[2]
    /\ spc = "limited" =>
         progress.sessionLimit.val \in config.maxPerSession[1] .. config.maxPerSession[2]

(***************************************************************************)
(* Claims about the ends of a call and of a session                        *)
(***************************************************************************)
\* the steps of one iteration of executeWithRetry, counted down to its end
StepsLeft ==
  CASE pc = "check" -> 5
    [] pc = "sleeping" -> 4
    [] pc = "refresh" -> 3
    [] pc = "call" -> 2
    [] pc = "waiting" -> 1
    [] OTHER -> 0

\* what is left of executeWithRetry: the iterations to come and the steps of this one
Remaining ==
  IF pc \in {"idle", "returned", "thrown"} THEN 0
  ELSE (config.retryAttempts - attempt) * 6 + StepsLeft

\* C34: whatever the operation answers (terminal, 429 with or without a reset header,
\* transient, success), one executeWithRetry invokes it at most retryAttempts times;
\* each of its steps brings its end nearer, and it ends returned or thrown
C34_BoundedCalls ==
  /\ [](/\ calls <= config.retryAttempts
        /\ Remaining >= 0
        /\ (pc \notin {"idle", "returned", "thrown"} => attempt < config.retryAttempts))
  /\ [][(pc \notin {"idle", "returned", "thrown"} /\ ~Tick)
          => /\ Remaining' < Remaining
             /\ pc' # "idle"
             /\ (pc' \in {"returned", "thrown"} => outcome'.kind = pc')]_vars

C34_Witness ==
  /\ pc = "thrown"
  /\ config.retryAttempts = 3
  /\ calls = 3
  /\ n429 = 2
  /\ lastError \in {"500", "none"}
  /\ waits = 2

\* C35: in the follow bot, for a session limit of at least 1, the totalFollowed of the
\* record held and of the record stored never exceeds its sessionLimit, and no user is
\* examined or followed once totalFollowed has reached it, in a resumed session too
C35_FollowSessionLimit ==
  /\ (variant = "follow" /\ progress # Null /\ progress.sessionLimit.type = "number"
        /\ progress.sessionLimit.val >= 1)
       => /\ progress.totalFollowed <= progress.sessionLimit.val
          /\ (spc \in {"isFollowing", "act"}
                => progress.totalFollowed < progress.sessionLimit.val)
  /\ (variant = "follow" /\ file # NoFile /\ file.sessionLimit.type = "number"
        /\ file.sessionLimit.val >= 1)
       => file.totalFollowed <= file.sessionLimit.val

C35_Witness ==
  /\ variant = "follow"
  /\ run = 2
  /\ resumed
  /\ spc = "pageDone"
  /\ ~shouldStop
  /\ idx <= Len(selectedUsers)
  /\ progress.sessionLimit = Num(2)
  /\ progress.totalFollowed = 2
  /\ file.totalFollowed = 2

\* C36: when no request fails for ever, a session that has started (isRunning) comes
\* to its end: the summary is written and isRunning is false again, in both bots,
\* unless the process is killed and launched again before
C36_SessionEnds ==
  \A k \in 1 .. MaxRuns :
    (isRunning /\ run = k) ~> ((spc = "exited" /\ ~isRunning /\ exitCode = "0") \/ run # k)

C36_Witness ==
  /\ variant = "unfollow"
  /\ spc = "exited"
  /\ exitCode = "0"
  /\ ~isRunning
  /\ ~shouldStop
  /\ ~terminal
  /\ ~hasMorePages
  /\ currentPage = 3
  /\ progress.totalFollowed = 3

(***************************************************************************)
(* Claims about what the progress file holds, checked under Spec           *)
(***************************************************************************)
\* a content of the progress file that is a record of progress.js: its currentPage is
\* a positive integer, its followedUsers a list of logins, its totalFollowed a natural
WellFormed(c) ==
  /\ DOMAIN c = DOMAIN DEFAULT_PROGRESS
  /\ c.currentPage \in Nat \ {0}
  /\ \A i \in 1 .. Len(c.followedUsers) : c.followedUsers[i] \in Users
  /\ c.totalFollowed \in Nat

\* C37 (as claimed): every content written to the progress file, the writes of a page
\* transition included, is a well-formed record
C37_WellFormedWrites ==
  /\ file # NoFile => WellFormed(file)
  /\ \A i \in 1 .. Len(pageWrites) : WellFormed(pageWrites[i])

\* C38: in the follow bot, when a stop request ends processPage before every selected
\* user was handled, the page number is still incremented and saved; a session that
\* resumes starts at the page the file holds, and while it runs its page is the one of
\* the record and of the file, so the page that was cut short is not fetched again
C38_StopMidPage ==
  /\ []((variant = "follow" /\ isRunning /\ progress # Null)
          => /\ progress.currentPage = currentPage
             /\ file.currentPage = currentPage)
  /\ [][/\ (Follow_PageDone /\ shouldStop /\ idx <= Len(selectedUsers))
             => /\ currentPage' = currentPage + 1
                /\ progress'.currentPage = currentPage + 1
                /\ file'.currentPage = currentPage + 1
        /\ ((\E l \in FollowLimits : Follow_Initialize(TRUE, l)) /\ resumed')
             => /\ file' = file
                /\ progress' = file
                /\ (spc' = "while" => currentPage' = file.currentPage)]_vars

C38_Witness ==
  /\ variant = "follow"
  /\ run = 1
  /\ spc = "exited"
  /\ exitCode = "0"
  /\ signalled
  /\ shouldStop
  /\ ~terminal
  /\ idx = 1
  /\ Len(selectedUsers) = 2
  /\ currentPage = 2
  /\ file.currentPage = 2
  /\ file.totalFollowed = 0

====
